---- MODULE Spec2Model ----
(***************************************************************************)
(* Model of the Google Chat client in src/chat_client.py: the session      *)
(* store (cookie cache, auth cache, refresh_tokens), the transport's token *)
(* check and request counter, the authentication loop of main(), and the   *)
(* pagination coordinator (get_messages_paginated / get_all_messages),     *)
(* the conversation assembler (_parse_topics_with_threads), the space      *)
(* discovery (list_spaces / add_space), the search (server_search and the  *)
(* local search), the batch RPC codec (_execute_search_rpc) and the        *)
(* structural inference over decoded responses (_find_spaces_in_data,      *)
(* _extract_spaces_from_pblite, _parse_topics_with_threads on value        *)
(* trees).                                                                 *)
(*                                                                         *)
(* Python None is written None in string-typed slots and NoneTs in         *)
(* integer-typed slots; an optional file or dict is a sequence of length   *)
(* 0 (absent) or 1 (present).  Message texts are sequences of characters.  *)
(***************************************************************************)
EXTENDS Integers, Sequences, FiniteSets, TLC

\* ------------------------------------------------------------------ bounds
MaxTicks == 2        \* the wall clock advances at most this many times
TickHours == 12      \* hours the wall clock advances in one Tick
MaxReqId == 2        \* calls issued by one client instance
MaxPages == 3        \* largest max_pages argument of get_all_messages
MaxTs == 2           \* largest timestamp the backend returns
MaxNest == 5         \* deepest nesting of a space identifier in a response

\* ------------------------------------------------------- program constants
CacheWindowHours == 24
MaxAuthAttempts == 2
HttpOk == 200

None == "None"
NoneTs == 0 - 1
StartHour == 1
Required == {"SID", "HSID", "SSID", "OSID"}

Falsy(s) == s = None \/ s = ""
FalsyTs(t) == t = NoneTs \/ t = 0

VARIABLES
  now,            \* datetime.now(), in hours
  authFile,       \* cached_auth.json: <<>> or <<[xsrf_token, cached_at]>>
  cookieFile,     \* cached_cookies.json: <<>> or <<set of cookie names>>
  xsrf_token,     \* self.xsrf_token of the live client instance
  acquired_at,    \* hour at which the held token was obtained from the server
  api_reqid,      \* self.api_reqid
  ev,             \* the last operation and what it did
  mpc,            \* main(): position in the authentication loop
  auth_attempts,  \* main(): auth_attempts
  cookies,        \* main(): cookies
  fresh,          \* main(): cookies came from a fresh extraction
  pc,             \* get_all_messages: position
  max_pages,      \* get_all_messages: argument
  page_num,       \* get_all_messages: loop index
  cursor,         \* get_all_messages: cursor
  all_messages,   \* get_all_messages: all_messages
  requests,       \* before_timestamp of every list_topics request sent
  responses,      \* [has_more, next_cursor] of every page received
  result,         \* the last value returned by get_messages_paginated
  unique,         \* the value returned by get_all_messages
  backend,        \* the list_topics responses a scripted backend gives
                  \* ({}: a backend that may give any response)
  data,           \* _parse_topics_with_threads: the response being parsed
  tree,           \* structural inference: the decoded response, as a value tree
  extracted,      \* structural inference: what the last extractor gave
  known_spaces,   \* known_spaces.json: the list _load_known_spaces returns
  spaces_cache,   \* self._spaces_cache (<<>>: None or empty); list_spaces
                  \* returns the list it holds when it is done
  mole_spaces,    \* the spaces found in self._mole_world_body
  space_in,       \* the arguments and the live answer of the last space operation
  spc,            \* the search under way: position
  query,          \* search: the query argument
  limit,          \* search: the limit argument
  rpc,            \* server_search: how the batch RPC attempt ended
  fetched,        \* local search: what get_messages gave, space by space
  matches,        \* search: the value returned
  search_log,     \* server_search: the searches attempted, in order
  space_arg,      \* server_search: the space_id argument (None: every space)
  rpc_call        \* _execute_search_rpc: the array serialized into f.req

vars == <<now, authFile, cookieFile, xsrf_token, acquired_at, api_reqid, ev,
          mpc, auth_attempts, cookies, fresh,
          pc, max_pages, page_num, cursor, all_messages, requests, responses,
          result, unique, backend, data, tree, extracted,
          known_spaces, spaces_cache, mole_spaces, space_in,
          spc, query, limit, rpc, fetched, matches, search_log,
          space_arg, rpc_call>>

mainVars == <<mpc, auth_attempts, cookies, fresh, cookieFile>>
pageVars == <<pc, max_pages, page_num, cursor, all_messages, requests,
              responses, result, unique>>
parseVars == <<backend, data, tree, extracted>>
spaceVars == <<known_spaces, spaces_cache, mole_spaces, space_in>>
searchVars == <<spc, query, limit, rpc, fetched, matches, search_log,
                space_arg, rpc_call>>
extVars == <<parseVars, spaceVars, searchVars>>

\* ------------------------------------------------------------ environment
Tokens == {"tok1", "tok2"}

\* The answer of the bootstrap endpoint /mole/world: HTTP status, whether
\* the body holds the WIZ_global_data marker, whether the blob is JSON,
\* whether qwAQke says AccountsSignInUi, and the value under SMqcke.
\* Drawn: every well-formed page (any sign-in flag, any SMqcke value) and
\* every way of breaking the status, the marker or the JSON of a page that
\* carries tok1.
BootResponses ==
  { r \in [status : {HttpOk, 302}, marker : BOOLEAN, json : BOOLEAN,
            signin : BOOLEAN, SMqcke : Tokens \cup {None, ""}] :
      \/ r.status = HttpOk /\ r.marker /\ r.json
      \/ r.SMqcke = "tok1" /\ ~r.signin }

\* What extract_cookies.py yields: "fail" (non-zero return code) or a cookie jar.
Extractions == {<<>>, <<Required>>, <<{"SID"}>>}

NoResp ==
  [status |-> 0, marker |-> FALSE, json |-> FALSE, signin |-> FALSE,
   SMqcke |-> None]

\* The answers the bootstrap endpoint can give to a call that reaches it.
Answers(reached) == IF reached THEN BootResponses ELSE {NoResp}

\* Statuses the structured API and the batch RPC endpoint answer with.
ApiStatuses == {HttpOk, 401}

\* ev: the operation, its force_refresh argument, whether it made the
\* bootstrap round trip and what the server answered, whether it raised, and
\* the token carried by the request it sent (None: no request sent).
Event(op, force, bootstrap, resp, raised, sent) ==
  [op |-> op, force |-> force, bootstrap |-> bootstrap,
   resp |-> IF bootstrap THEN resp ELSE NoResp, raised |-> raised,
   sent |-> sent]

NoEvent == Event("none", FALSE, FALSE, NoResp, FALSE, None)

\* ------------------------------------------------------------ session store
load_auth_cache_inclusive(file, t) ==
  IF file # <<>>
     /\ ~Falsy(file[1].xsrf_token)
     /\ file[1].cached_at # 0
     /\ (t - file[1].cached_at) <= CacheWindowHours
  THEN file
  ELSE <<>>

\* _load_auth_cache: the cached record when it has a token and is younger
\* than 24 hours, otherwise None.
load_auth_cache(file, t) ==
  IF file # <<>>
     /\ ~Falsy(file[1].xsrf_token)
     /\ file[1].cached_at # 0
     /\ (t - file[1].cached_at) < CacheWindowHours
  THEN file
  ELSE <<>>

save_auth_cache_unstamped(tok, t) == <<[xsrf_token |-> tok, cached_at |-> 0]>>

\* _save_auth_cache
save_auth_cache(tok, t) == <<[xsrf_token |-> tok, cached_at |-> t]>>

\* invalidate_auth_cache, invalidate_cookie_cache: os.remove of the file
invalidate_auth_cache(file) == <<>>

invalidate_cookie_cache(file) == <<>>

refresh_tokens_no_signin_check(tok, acq, file, t, force, resp) ==
  LET cached == load_auth_cache(file, t)
      fail(newtok) == [xsrf_token |-> newtok, acquired_at |-> acq, file |-> file,
                       bootstrap |-> TRUE, raised |-> TRUE]
  IN
  IF ~force /\ cached # <<>>
  THEN [xsrf_token |-> cached[1].xsrf_token, acquired_at |-> cached[1].cached_at,
        file |-> file, bootstrap |-> FALSE, raised |-> FALSE]
  ELSE IF resp.status # HttpOk THEN fail(tok)
  ELSE IF ~resp.marker THEN fail(tok)
  ELSE IF ~resp.json THEN fail(tok)
  ELSE IF Falsy(resp.SMqcke) THEN fail(resp.SMqcke)
  ELSE [xsrf_token |-> resp.SMqcke, acquired_at |-> t,
        file |-> save_auth_cache(resp.SMqcke, t),
        bootstrap |-> TRUE, raised |-> FALSE]

\* refresh_tokens(force_refresh) on a client holding tok acquired at acq:
\* the client's token afterwards, the auth cache afterwards, whether the
\* bootstrap round trip was made and whether the call raised.
refresh_tokens(tok, acq, file, t, force, resp) ==
  LET cached == load_auth_cache(file, t)
      fail(newtok) == [xsrf_token |-> newtok, acquired_at |-> acq, file |-> file,
                       bootstrap |-> TRUE, raised |-> TRUE]
  IN
  IF ~force /\ cached # <<>>
  THEN [xsrf_token |-> cached[1].xsrf_token, acquired_at |-> cached[1].cached_at,
        file |-> file, bootstrap |-> FALSE, raised |-> FALSE]
  ELSE IF resp.status # HttpOk THEN fail(tok)
  ELSE IF ~resp.marker THEN fail(tok)
  ELSE IF ~resp.json THEN fail(tok)
  ELSE IF resp.signin THEN fail(tok)
  ELSE IF Falsy(resp.SMqcke) THEN fail(resp.SMqcke)
  ELSE [xsrf_token |-> resp.SMqcke, acquired_at |-> t,
        file |-> save_auth_cache(resp.SMqcke, t),
        bootstrap |-> TRUE, raised |-> FALSE]

ensure_token_uncounted(tok, acq, file, t, reqid, resp) ==
  LET r == IF Falsy(tok)
           THEN refresh_tokens(tok, acq, file, t, FALSE, resp)
           ELSE [xsrf_token |-> tok, acquired_at |-> acq, file |-> file,
                 bootstrap |-> FALSE, raised |-> FALSE]
  IN [xsrf_token |-> r.xsrf_token, acquired_at |-> r.acquired_at,
      file |-> r.file, bootstrap |-> r.bootstrap, raised |-> r.raised,
      api_reqid |-> reqid,
      sent |-> IF r.raised THEN None ELSE r.xsrf_token]

\* The head of _api_request_protojson, _api_request_protobuf and
\* server_search: acquire a token when none is held, count the request, and
\* send it with the held token.  sent is the token the request carries
\* (None when no request was sent because acquisition raised).
ensure_token(tok, acq, file, t, reqid, resp) ==
  LET r == IF Falsy(tok)
           THEN refresh_tokens(tok, acq, file, t, FALSE, resp)
           ELSE [xsrf_token |-> tok, acquired_at |-> acq, file |-> file,
                 bootstrap |-> FALSE, raised |-> FALSE]
  IN [xsrf_token |-> r.xsrf_token, acquired_at |-> r.acquired_at,
      file |-> r.file, bootstrap |-> r.bootstrap, raised |-> r.raised,
      api_reqid |-> IF r.raised THEN reqid ELSE reqid + 1,
      sent |-> IF r.raised THEN None ELSE r.xsrf_token]

\* A session is valid at hour t: a token is held and it is younger than the window.
SessionValid(tok, acq, t) == ~Falsy(tok) /\ (t - acq) < CacheWindowHours


\* get_messages_paginated has not returned yet
NoResult ==
  [messages |-> <<>>, topics |-> <<>>, has_more |-> FALSE,
   next_cursor |-> NoneTs, contains_last_topic |-> FALSE]

\* no response is being parsed
NoData == [topics |-> <<>>, last |-> FALSE]

\* JSON null as a node of a value tree.  A node is [k, v]: the kind, and
\* the value as a sequence (the truth value of a bool, the integer of a
\* num, the characters of a str, the items of a list, the values of a dict)
Null == [k |-> "null", v |-> <<>>]

\* The other nodes of a value tree: what json.loads gives, json.dumps takes.
Bool(b) == [k |-> "bool", v |-> <<b>>]
Num(n) == [k |-> "num", v |-> <<n>>]
Str(s) == [k |-> "str", v |-> s]
List(items) == [k |-> "list", v |-> items]
Dict(values) == [k |-> "dict", v |-> values]

\* arr[i], zero-based
At(arr, i) == arr.v[i + 1]

RECURSIVE Nest(_, _)
\* t inside n arrays
Nest(t, n) == IF n = 0 THEN t ELSE List(<<Nest(t, n - 1)>>)

\* no extractor has run
NoOut == [op |-> "none", raised |-> FALSE, spaces |-> <<>>]

\* no batch RPC has been attempted
NoRpc == [status |-> 0, raised |-> FALSE, hits |-> <<>>]

\* no space operation has run
NoSpaceIn == [id |-> None, name |-> None, ok |-> FALSE, found |-> <<>>]

\* ------------------------------------------------- session store: actions
SessionFields ==
  /\ now = StartHour
  /\ authFile = <<>>
  /\ xsrf_token = None
  /\ acquired_at = 0
  /\ api_reqid = 0
  /\ ev = NoEvent

MainIdle ==
  /\ mpc = "idle"
  /\ auth_attempts = 0
  /\ cookies = {}
  /\ fresh = FALSE
  /\ cookieFile = <<>>

PageIdle ==
  /\ pc = "idle"
  /\ max_pages = 0
  /\ page_num = 0
  /\ cursor = NoneTs
  /\ all_messages = <<>>
  /\ requests = <<>>
  /\ responses = <<>>
  /\ result = NoResult
  /\ unique = <<>>

TreeIdle ==
  /\ tree = Null
  /\ extracted = NoOut

ParseIdle ==
  /\ backend = {}
  /\ data = NoData
  /\ TreeIdle

SpacesIdle ==
  /\ known_spaces = <<>>
  /\ spaces_cache = <<>>
  /\ mole_spaces = <<>>
  /\ space_in = NoSpaceIn

SearchIdle ==
  /\ spc = "idle"
  /\ query = <<>>
  /\ limit = 0
  /\ rpc = NoRpc
  /\ fetched = <<>>
  /\ matches = <<>>
  /\ search_log = <<>>
  /\ space_arg = None
  /\ rpc_call = Null

OtherIdle == SpacesIdle /\ SearchIdle

ExtIdle == ParseIdle /\ OtherIdle

Init == SessionFields /\ MainIdle /\ PageIdle /\ ExtIdle

\* The wall clock advances.
Tick ==
  /\ now + TickHours <= StartHour + MaxTicks * TickHours
  /\ now' = now + TickHours
  /\ ev' = Event("tick", FALSE, FALSE, NoResp, FALSE, None)
  /\ UNCHANGED <<authFile, xsrf_token, acquired_at, api_reqid>>
  /\ UNCHANGED <<mainVars, pageVars>>
  /\ UNCHANGED extVars

\* GoogleChatClient.__init__: a new client instance replaces the live one.
NewClient ==
  /\ xsrf_token' = None
  /\ acquired_at' = 0
  /\ api_reqid' = 0
  /\ spaces_cache' = <<>>
  /\ mole_spaces' = <<>>
  /\ ev' = Event("init", FALSE, FALSE, NoResp, FALSE, None)
  /\ UNCHANGED <<now, authFile>>
  /\ UNCHANGED <<mainVars, pageVars>>
  /\ UNCHANGED <<parseVars, known_spaces, space_in, searchVars>>

\* client.refresh_tokens(force_refresh)
RefreshTokens ==
  \E force \in BOOLEAN :
  \E resp \in Answers(force \/ load_auth_cache(authFile, now) = <<>>) :
    LET r == refresh_tokens(xsrf_token, acquired_at, authFile, now, force, resp)
    IN /\ xsrf_token' = r.xsrf_token
       /\ acquired_at' = r.acquired_at
       /\ authFile' = r.file
       /\ ev' = Event("refresh_tokens", force, r.bootstrap, resp, r.raised, None)
       /\ UNCHANGED <<now, api_reqid>>
       /\ UNCHANGED <<mainVars, pageVars>>
       /\ UNCHANGED extVars

\* A call that goes through ensure_token and then posts the request; the
\* post raises on a non-200 status.
Call(op, resp, status) ==
  LET r == ensure_token(xsrf_token, acquired_at, authFile, now, api_reqid, resp)
  IN /\ xsrf_token' = r.xsrf_token
     /\ acquired_at' = r.acquired_at
     /\ authFile' = r.file
     /\ api_reqid' = r.api_reqid
     /\ ev' = Event(op, FALSE, r.bootstrap, resp,
                    r.raised \/ (op # "search" /\ status # HttpOk), r.sent)
     /\ UNCHANGED now

\* client._api_request_protojson(endpoint, request)
ApiRequestProtojson ==
  /\ api_reqid < MaxReqId
  /\ \E resp \in Answers(Falsy(xsrf_token) /\ load_auth_cache(authFile, now) = <<>>),
        status \in ApiStatuses :
       Call("protojson", resp, status)
  /\ UNCHANGED <<mainVars, pageVars>>
  /\ UNCHANGED extVars

\* client._api_request_protobuf(endpoint, request)
ApiRequestProtobuf ==
  /\ api_reqid < MaxReqId
  /\ \E resp \in Answers(Falsy(xsrf_token) /\ load_auth_cache(authFile, now) = <<>>),
        status \in ApiStatuses :
       Call("protobuf", resp, status)
  /\ UNCHANGED <<mainVars, pageVars>>
  /\ UNCHANGED extVars

\* client.server_search(query): the token check, the counter and the batch
\* RPC; a non-200 answer is swallowed by _execute_search_rpc.
ServerSearch ==
  /\ api_reqid < MaxReqId
  /\ \E resp \in Answers(Falsy(xsrf_token) /\ load_auth_cache(authFile, now) = <<>>),
        status \in ApiStatuses :
       Call("search", resp, status)
  /\ UNCHANGED <<mainVars, pageVars>>
  /\ UNCHANGED extVars

\* invalidate_auth_cache()
InvalidateAuthCache ==
  /\ authFile' = invalidate_auth_cache(authFile)
  /\ ev' = Event("invalidate_auth_cache", FALSE, FALSE, NoResp, FALSE, None)
  /\ UNCHANGED <<now, xsrf_token, acquired_at, api_reqid>>
  /\ UNCHANGED <<mainVars, pageVars>>
  /\ UNCHANGED extVars

NextSession ==
  \/ Tick
  \/ NewClient
  \/ RefreshTokens
  \/ ApiRequestProtojson
  \/ ApiRequestProtobuf
  \/ ServerSearch
  \/ InvalidateAuthCache

SpecSession == Init /\ [][NextSession]_vars


\* ------------------------------------------------ conversation assembler
\* The list_topics response in its documented shape: data[0][1] is the
\* array of topics, data[4] the contains_last_topic flag; a topic array has
\* the topic id at [0][1], its timestamp at [1] and the message arrays at
\* [6]; a message array has ten or more slots, the id at [0][1], the
\* timestamp at [2] and the text at [9] (<<>>: empty or not a string).
TsValues == {NoneTs} \cup (0..MaxTs)

Texts == {<<>>, <<"a">>}

RawMessages == [m0 : {None}, m2 : TsValues, m9 : Texts]

MessageArrays ==
  {<<>>} \cup {<<m>> : m \in RawMessages}
         \cup {<<m, n>> : m \in RawMessages, n \in RawMessages}

RawTopics == [t0 : {None, "T1"}, t1 : {NoneTs}, t6 : MessageArrays]

PageData == [topics : {<<>>} \cup {<<t>> : t \in RawTopics}, last : BOOLEAN]

\* parse_timestamp(ts): the raw_usec half of the pair it returns
parse_timestamp(ts) == IF FalsyTs(ts) THEN NoneTs ELSE ts

\* try_parse_message(arr, topic_id): <<>> for None
try_parse_message(arr, topic_id) ==
  IF arr.m9 # <<>>
  THEN <<[message_id |-> arr.m0, topic_id |-> topic_id, text |-> arr.m9,
          timestamp_usec |-> parse_timestamp(arr.m2),
          is_thread_reply |-> FALSE, reply_index |-> 0]>>
  ELSE <<>>

SortKey_missing_newest(m) ==
  IF FalsyTs(m.timestamp_usec) THEN MaxTs + 1 ELSE m.timestamp_usec

\* key=lambda m: m.get("timestamp_usec") or 0
SortKey(m) == IF FalsyTs(m.timestamp_usec) THEN 0 ELSE m.timestamp_usec

RECURSIVE Insert(_, _, _)
\* m put behind every element of the sorted list that does not come after
\* it (ascending, or descending when reverse), as the stable list sort does
Insert(sorted, m, reverse) ==
  IF sorted = <<>> THEN <<m>>
  ELSE IF (IF reverse THEN SortKey(Head(sorted)) >= SortKey(m)
                      ELSE SortKey(Head(sorted)) <= SortKey(m))
       THEN <<Head(sorted)>> \o Insert(Tail(sorted), m, reverse)
       ELSE <<m>> \o sorted

RECURSIVE SortFrom(_, _, _)
SortFrom(sorted, rest, reverse) ==
  IF rest = <<>> THEN sorted
  ELSE SortFrom(Insert(sorted, Head(rest), reverse), Tail(rest), reverse)

\* sorted(msgs, key=..., reverse=...) and list.sort
Sorted(msgs, reverse) == SortFrom(<<>>, msgs, reverse)

RECURSIVE ParseAll(_, _)
\* the messages try_parse_message accepts among the arrays at slot 6
ParseAll(arrs, topic_id) ==
  IF arrs = <<>> THEN <<>>
  ELSE try_parse_message(Head(arrs), topic_id) \o ParseAll(Tail(arrs), topic_id)

RECURSIVE Oldest(_, _)
\* oldest_timestamp after the messages of one topic have been looked at
Oldest(oldest, msgs) ==
  IF msgs = <<>> THEN oldest
  ELSE LET ts == Head(msgs).timestamp_usec
       IN Oldest(IF ~FalsyTs(ts) /\ (oldest = NoneTs \/ ts < oldest)
                 THEN ts ELSE oldest,
                 Tail(msgs))

Marked_all_replies(sorted_msgs) ==
  [i \in 1..Len(sorted_msgs) |->
     [sorted_msgs[i] EXCEPT !.is_thread_reply = (i - 1) >= 0,
                            !.reply_index = i - 1]]

\* the messages of a topic marked as thread root and replies
Marked(sorted_msgs) ==
  [i \in 1..Len(sorted_msgs) |->
     [sorted_msgs[i] EXCEPT !.is_thread_reply = (i - 1) > 0,
                            !.reply_index = i - 1]]

\* extract_topic_and_messages(arr) on one topic array, given the state
\* acc = [topics, messages, oldest_timestamp] of the enclosing parse.  In the
\* documented shape the recursive fallback finds no message that slot 6 did
\* not give.
extract_topic_and_messages(acc, arr) ==
  LET topic_id == arr.t0
      topic_messages == ParseAll(arr.t6, topic_id)
      sorted_msgs == Marked(Sorted(topic_messages, FALSE))
  IN IF topic_id # None /\ topic_messages # <<>>
     THEN [topics |-> Append(acc.topics,
                             [topic_id |-> topic_id, timestamp |-> arr.t1,
                              message_count |-> Len(sorted_msgs),
                              replies |-> sorted_msgs]),
           messages |-> acc.messages \o sorted_msgs,
           oldest_timestamp |-> Oldest(acc.oldest_timestamp, topic_messages)]
     ELSE acc

RECURSIVE ExtractTopics(_, _)
ExtractTopics(acc, topics_array) ==
  IF topics_array = <<>> THEN acc
  ELSE ExtractTopics(extract_topic_and_messages(acc, Head(topics_array)),
                     Tail(topics_array))

\* text[:n]
Prefix(text, n) == SubSeq(text, 1, IF Len(text) < n THEN Len(text) ELSE n)

RECURSIVE Dedup(_, _, _)
\* the messages whose key (keys[i] for msgs[i]) is not in seen and was not
\* met earlier in the list, in order
Dedup(msgs, keys, seen) ==
  IF msgs = <<>> THEN <<>>
  ELSE IF Head(keys) \in seen
       THEN Dedup(Tail(msgs), Tail(keys), seen)
       ELSE <<Head(msgs)>>
            \o Dedup(Tail(msgs), Tail(keys), seen \cup {Head(keys)})

PageKey_whole_text(m) == m.text

\* text_key = msg.get("text", "")[:100]
PageKey(m) == Prefix(m.text, 100)

has_more_ignores_cursor(topics, contains_last_topic, oldest_timestamp) ==
  Len(topics) > 0 /\ ~contains_last_topic

\* has_more
has_more(topics, contains_last_topic, oldest_timestamp) ==
  Len(topics) > 0 /\ ~contains_last_topic /\ oldest_timestamp # NoneTs

parse_topics_with_threads_no_dedup(d) ==
  LET acc == ExtractTopics([topics |-> <<>>, messages |-> <<>>,
                            oldest_timestamp |-> NoneTs], d.topics)
      contains_last_topic == d.last
  IN [messages |-> Sorted(acc.messages, TRUE),
      topics |-> acc.topics,
      has_more |-> has_more(acc.topics, contains_last_topic,
                            acc.oldest_timestamp),
      next_cursor |-> acc.oldest_timestamp,
      contains_last_topic |-> contains_last_topic]

\* _parse_topics_with_threads(data, space_id); contains_last_topic is the
\* local of that name
parse_topics_with_threads(d) ==
  LET acc == ExtractTopics([topics |-> <<>>, messages |-> <<>>,
                            oldest_timestamp |-> NoneTs], d.topics)
      contains_last_topic == d.last
      messages == Sorted(acc.messages, TRUE)
  IN [messages |-> Dedup(messages,
                         [i \in 1..Len(messages) |-> PageKey(messages[i])], {}),
      topics |-> acc.topics,
      has_more |-> has_more(acc.topics, contains_last_topic,
                            acc.oldest_timestamp),
      next_cursor |-> acc.oldest_timestamp,
      contains_last_topic |-> contains_last_topic]

\* ------------------------------------------------- pagination coordinator
AllKey_text_only(m) == Prefix(m.text, 50)

\* key = msg.get("message_id") or msg.get("text", "")[:50]
AllKey(m) == IF Falsy(m.message_id) THEN Prefix(m.text, 50) ELSE <<m.message_id>>

\* get_messages_paginated: group_not_older_than is set only for a truthy
\* before_timestamp
group_not_older_than(before_timestamp) ==
  IF FalsyTs(before_timestamp) THEN NoneTs ELSE before_timestamp

\* get_all_messages: if not result["has_more"] or not result["next_cursor"]
stop_paging(res) == ~res.has_more \/ FalsyTs(res.next_cursor)

range_one_more(n, mp) == n < mp + 1

\* get_all_messages: for page_num in range(max_pages)
in_range(n, mp) == n < mp

next_cursor_kept(cur, res) == IF cur = NoneTs THEN res.next_cursor ELSE cur

\* get_all_messages: cursor = result["next_cursor"]
next_page_cursor(cur, res) == res.next_cursor

\* the responses the backend may give to a list_topics request
Served == IF backend = {} THEN PageData ELSE backend

\* A client is at hand, with or without a token, and no paging under way.
InitPage ==
  /\ SessionFields
  /\ MainIdle
  /\ PageIdle
  /\ ParseIdle
  /\ OtherIdle

\* client.get_all_messages(space_id, max_pages)
GetAllMessages ==
  /\ pc = "idle"
  /\ \E mp \in 0..MaxPages : max_pages' = mp
  /\ pc' = "loop"
  /\ page_num' = 0
  /\ cursor' = NoneTs
  /\ all_messages' = <<>>
  /\ ev' = Event("get_all_messages", FALSE, FALSE, NoResp, FALSE, None)
  /\ UNCHANGED <<requests, responses, result, unique>>
  /\ UNCHANGED <<now, authFile, xsrf_token, acquired_at, api_reqid>>
  /\ UNCHANGED mainVars
  /\ UNCHANGED extVars

\* One loop iteration up to the await: get_messages_paginated builds the
\* list_topics request from the cursor and _api_request_protojson sends it.
SendPageRequest ==
  /\ pc = "loop"
  /\ in_range(page_num, max_pages)
  /\ \E resp \in Answers(Falsy(xsrf_token) /\ load_auth_cache(authFile, now) = <<>>) :
       LET r == ensure_token(xsrf_token, acquired_at, authFile, now, api_reqid, resp)
       IN /\ xsrf_token' = r.xsrf_token
          /\ acquired_at' = r.acquired_at
          /\ authFile' = r.file
          /\ api_reqid' = r.api_reqid
          /\ ev' = Event("protojson", FALSE, r.bootstrap, resp, r.raised, r.sent)
          /\ pc' = IF r.raised THEN "raised" ELSE "await"
          /\ requests' = IF r.raised THEN requests
                         ELSE Append(requests, group_not_older_than(cursor))
  /\ UNCHANGED <<now, max_pages, page_num, cursor, all_messages, responses,
                 result, unique>>
  /\ UNCHANGED mainVars
  /\ UNCHANGED extVars

\* The rest of the iteration: the response arrives; a non-200 status raises
\* out of get_all_messages, otherwise the page is parsed, its messages are
\* collected and the loop stops or moves the cursor.
ReceivePage ==
  /\ pc = "await"
  /\ \/ /\ pc' = "raised"
        /\ ev' = Event("page_error", FALSE, FALSE, NoResp, TRUE, None)
        /\ UNCHANGED <<page_num, cursor, all_messages, responses, result>>
     \/ \E d \in Served :
          LET res == parse_topics_with_threads(d)
          IN /\ result' = res
             /\ responses' = Append(responses, [has_more |-> res.has_more,
                                                next_cursor |-> res.next_cursor])
             /\ all_messages' = all_messages \o res.messages
             /\ ev' = Event("page", FALSE, FALSE, NoResp, FALSE, None)
             /\ IF stop_paging(res)
                THEN /\ pc' = "break"
                     /\ UNCHANGED <<page_num, cursor>>
                ELSE /\ pc' = "loop"
                     /\ cursor' = next_page_cursor(cursor, res)
                     /\ page_num' = page_num + 1
  /\ UNCHANGED <<max_pages, requests, unique>>
  /\ UNCHANGED <<now, authFile, xsrf_token, acquired_at, api_reqid>>
  /\ UNCHANGED mainVars
  /\ UNCHANGED extVars

\* After the loop: deduplicate and return.
ReturnMessages ==
  /\ pc = "break" \/ (pc = "loop" /\ ~in_range(page_num, max_pages))
  /\ unique' = Dedup(all_messages,
                     [i \in 1..Len(all_messages) |-> AllKey(all_messages[i])], {})
  /\ pc' = "done"
  /\ ev' = Event("return", FALSE, FALSE, NoResp, FALSE, None)
  /\ UNCHANGED <<max_pages, page_num, cursor, all_messages, requests,
                 responses, result>>
  /\ UNCHANGED <<now, authFile, xsrf_token, acquired_at, api_reqid>>
  /\ UNCHANGED mainVars
  /\ UNCHANGED extVars

NextPage ==
  \/ GetAllMessages
  \/ SendPageRequest
  \/ ReceivePage
  \/ ReturnMessages

SpecPage == InitPage /\ [][NextPage]_vars

\* --------------------------------------------------- pagination: properties
\* C1: get_all_messages sends at most max_pages list_topics requests; a page
\* that reports contains_last_topic, produces no topic or produces no cursor
\* ends the loop at once; after max_pages pages only the return is left.
C1_AtMostMaxPagesFetches ==
  /\ Len(requests) <= max_pages
  /\ page_num <= max_pages
  /\ pc = "loop" => page_num = Len(responses) /\ Len(requests) = Len(responses)
  /\ ev.op = "page" =>
       /\ (result.contains_last_topic \/ Len(result.topics) = 0
              \/ result.next_cursor = NoneTs) => pc = "break"
       /\ pc \in {"break", "loop"}
  /\ pc = "done" => Len(requests) <= max_pages /\ Len(responses) = Len(requests)

\* C1 witness: the backend answered every request with the same cursor and
\* has_more, and get_all_messages returned after max_pages requests.
C1_Witness ==
  /\ pc = "done"
  /\ max_pages >= 2
  /\ Len(requests) = max_pages
  /\ \A k \in 1..Len(responses) :
       responses[k].has_more /\ responses[k].next_cursor = responses[1].next_cursor

\* the timestamps of the messages in the topics of a page
ReplyTimestamps(res) ==
  UNION { { res.topics[i].replies[j].timestamp_usec :
              j \in 1..Len(res.topics[i].replies) } :
          i \in 1..Len(res.topics) } \ {NoneTs}

\* C2: a page has has_more only if it produced a topic, the response did
\* not say contains_last_topic, and next_cursor is a timestamp: the oldest
\* one among the messages of the page's topics.
C2_HasMoreNeedsTopicNotLastCursor ==
  ev.op = "page" /\ result.has_more =>
    /\ Len(result.topics) > 0
    /\ ~result.contains_last_topic
    /\ result.next_cursor # NoneTs
    /\ result.next_cursor \in ReplyTimestamps(result)
    /\ \A t \in ReplyTimestamps(result) : result.next_cursor <= t

\* C2 witness: a page with has_more whose topic holds two timestamps.
C2_Witness ==
  /\ ev.op = "page" /\ result.has_more
  /\ Cardinality(ReplyTimestamps(result)) >= 2

\* C3: the cursor sent with page k+1 is never greater than the cursor sent
\* with page k (the first page is sent without a cursor).
C3_CursorNonIncreasing ==
  \A k \in 2..Len(requests) - 1 : requests[k + 1] <= requests[k]

\* C4: the first request carries no cursor; request k+1 is sent only after
\* response k has arrived and carries exactly that page's next_cursor.
C4_RequestsInCursorOrder ==
  /\ Len(requests) >= 1 => requests[1] = NoneTs
  /\ Len(requests) <= Len(responses) + 1
  /\ pc = "await" => Len(requests) = Len(responses) + 1
  /\ pc = "loop" => Len(requests) = Len(responses)
  /\ \A k \in 1..Len(requests) - 1 : requests[k + 1] = responses[k].next_cursor

\* C4 witness: three requests, the third with another cursor than the second.
C4_Witness ==
  /\ Len(requests) >= 3
  /\ requests[2] # requests[3]
  /\ pc = "await"

\* ------------------------------------------- conversation assembler: pages
\* n characters of padding
Pad(n) == [i \in 1..n |-> "x"]

\* Two texts that agree on their first 100 characters and differ behind
\* them, and a text that agrees with them on the first 50 only.
LongA == Pad(100) \o <<"y">>
LongB == Pad(100) \o <<"z">>
Mid == Pad(50) \o <<"y">>

ParseTexts == {<<>>, <<"a">>, <<"b">>, LongA, LongB}

ParseMessages == [m0 : {None}, m2 : TsValues, m9 : ParseTexts]

\* A response of one topic with up to three message arrays, or of two topics:
\* one or two message arrays in the first, one in the second.
ParseTopics ==
  {<<[t0 |-> id, t1 |-> NoneTs, t6 |-> ms]>> :
     id \in {None, "T1"},
     ms \in {<<>>} \cup {<<m>> : m \in ParseMessages}
                   \cup {<<m, n>> : m, n \in ParseMessages}
                   \cup {<<m, n, o>> : m, n, o \in ParseMessages}}
  \cup
  {<<[t0 |-> "T1", t1 |-> NoneTs, t6 |-> ms],
     [t0 |-> id, t1 |-> NoneTs, t6 |-> <<o>>]>> :
     id \in {None, "T1", "T2"},
     ms \in {<<m>> : m \in ParseMessages} \cup {<<m, n>> : m, n \in ParseMessages},
     o \in ParseMessages}

\* (the response has no slot 4: contains_last_topic stays False)
ParsePages == [topics : ParseTopics, last : {FALSE}]

\* A list_topics response is at hand.
InitParse ==
  /\ SessionFields
  /\ MainIdle
  /\ PageIdle
  /\ backend = {}
  /\ data \in ParsePages
  /\ TreeIdle
  /\ OtherIdle

\* self._parse_topics_with_threads(data, space_id)
ParseTopicsWithThreads ==
  /\ result' = parse_topics_with_threads(data)
  /\ ev' = Event("parse", FALSE, FALSE, NoResp, FALSE, None)
  /\ UNCHANGED <<pc, max_pages, page_num, cursor, all_messages, requests,
                 responses, unique>>
  /\ UNCHANGED <<now, authFile, xsrf_token, acquired_at, api_reqid>>
  /\ UNCHANGED mainVars
  /\ UNCHANGED extVars

NextParse == ParseTopicsWithThreads

SpecParse == InitParse /\ [][NextParse]_vars

\* -------------------------------------- conversation assembler: properties
\* the message arrays of the response, topic by topic
Candidates ==
  { <<i, j>> \in (1..Len(data.topics)) \X (1..3) : j <= Len(data.topics[i].t6) }

Candidate(c) == data.topics[c[1]].t6[c[2]]

\* C11: in every topic of a parsed page the messages are in non-decreasing
\* timestamp order, a missing timestamp counting as zero; the message at
\* index 0 is the only one with is_thread_reply false, and every message
\* carries its position as reply_index.
C11_TopicSortedRootFirst ==
  ev.op = "parse" =>
    \A t \in 1..Len(result.topics) :
      LET replies == result.topics[t].replies
      IN /\ Len(replies) >= 1
         /\ result.topics[t].message_count = Len(replies)
         /\ \A i \in 1..Len(replies) :
              /\ replies[i].is_thread_reply = (i # 1)
              /\ replies[i].reply_index = i - 1
              /\ \A j \in 1..Len(replies) :
                   i < j =>
                     (IF replies[i].timestamp_usec = NoneTs THEN 0
                      ELSE replies[i].timestamp_usec)
                     <= (IF replies[j].timestamp_usec = NoneTs THEN 0
                         ELSE replies[j].timestamp_usec)

\* C11 witness: a topic of three messages that arrived newest first: the
\* one without a timestamp is the root and the other two follow, oldest
\* first.
C11_Witness ==
  /\ ev.op = "parse"
  /\ Len(result.topics) = 1
  /\ Len(data.topics[1].t6) = 3
  /\ data.topics[1].t6[1].m2 = MaxTs
  /\ data.topics[1].t6[3].m2 = NoneTs
  /\ Len(result.topics[1].replies) = 3
  /\ result.topics[1].replies[1].timestamp_usec = NoneTs
  /\ result.topics[1].replies[3].timestamp_usec = MaxTs
  /\ result.topics[1].replies[3].is_thread_reply

\* C12: no message of a parsed page is without text, and every message
\* array with a text has a message with its content key on the page.
C12_TextOnlyGate ==
  ev.op = "parse" =>
    /\ \A k \in 1..Len(result.messages) : result.messages[k].text # <<>>
    /\ \A c \in Candidates :
         Candidate(c).m9 # <<>> =>
           \E k \in 1..Len(result.messages) :
             PageKey(result.messages[k]) = Prefix(Candidate(c).m9, 100)

\* the first 100 characters of a message's text
ContentKey(m) == Prefix(m.text, 100)

\* the messages of the topics of a parsed page
TopicReplies(res) ==
  UNION { { res.topics[t].replies[i] : i \in 1..Len(res.topics[t].replies) } :
          t \in 1..Len(res.topics) }

\* C14: no two messages of a page have the same first 100 characters of
\* text, every message of the page is a message of one of its topics, and
\* every content key found in the topics has a message on the page: exactly
\* one message is kept per key.
C14_OneMessagePerContentKey ==
  ev.op = "parse" =>
    /\ \A i, j \in 1..Len(result.messages) :
         i # j => ContentKey(result.messages[i]) # ContentKey(result.messages[j])
    /\ \A k \in 1..Len(result.messages) :
         result.messages[k] \in TopicReplies(result)
    /\ \A r \in TopicReplies(result) :
         \E k \in 1..Len(result.messages) :
           ContentKey(result.messages[k]) = ContentKey(r)

\* C14 witness: three messages in the topics, two of them with texts that
\* differ only behind the 100th character; two messages are kept.
C14_Witness ==
  /\ ev.op = "parse"
  /\ \E r, q \in TopicReplies(result) : r.text = LongA /\ q.text = LongB
  /\ \E r \in TopicReplies(result) : r.text = <<"a">>
  /\ Len(result.messages) = 2

\* C16: the messages of a page are in descending timestamp order, and no
\* message with a timestamp comes behind a message without one.
C16_NewestFirstMissingLast ==
  ev.op = "parse" =>
    \A i, j \in 1..Len(result.messages) :
      i < j =>
        \/ result.messages[j].timestamp_usec = NoneTs
        \/ /\ result.messages[i].timestamp_usec # NoneTs
           /\ result.messages[i].timestamp_usec >= result.messages[j].timestamp_usec

\* C16 witness: a topic that arrived oldest first, the message without a
\* timestamp before the others; the page lists the newest first and the
\* message without a timestamp last.
C16_Witness ==
  /\ ev.op = "parse"
  /\ Len(data.topics) = 1
  /\ Len(data.topics[1].t6) = 3
  /\ data.topics[1].t6[1].m2 = NoneTs
  /\ data.topics[1].t6[2].m2 = 1
  /\ data.topics[1].t6[3].m2 = MaxTs
  /\ Len(result.messages) = 3
  /\ result.messages[1].timestamp_usec = MaxTs
  /\ result.messages[2].timestamp_usec = 1
  /\ result.messages[3].timestamp_usec = NoneTs

\* C27: for every topic id among the messages of a parsed page, the root of
\* that topic (the message with is_thread_reply false) is on the page.
C27_RootOnPage ==
  ev.op = "parse" =>
    \A k \in 1..Len(result.messages) :
      \E j \in 1..Len(result.messages) :
        /\ result.messages[j].topic_id = result.messages[k].topic_id
        /\ ~result.messages[j].is_thread_reply

\* ------------------------------------------------ pagination over a thread
\* Messages with and without an identifier; Mid and LongA agree on their
\* first 50 characters and differ within the first 100.
ThreadMessages == [m0 : {None, "m1"}, m2 : {1, MaxTs}, m9 : {<<"a">>, Mid, LongA}]

\* the pages of one topic with the given message arrays
ThreadPages(arrs) ==
  [topics : {<<[t0 |-> "T1", t1 |-> NoneTs, t6 |-> ms]>> : ms \in arrs},
   last : BOOLEAN]

\* A backend that answers every request with the same page of one or two
\* messages, or with one of two pages of one message each.
ThreadBackends ==
  {{d} : d \in ThreadPages({<<m>> : m \in ThreadMessages}
                           \cup {<<m, n>> : m, n \in ThreadMessages})}
  \cup {{d, e} : d, e \in ThreadPages({<<m>> : m \in ThreadMessages})}

\* A client that holds a token, a backend, and no paging under way.
InitThread ==
  /\ now = StartHour
  /\ authFile = <<>>
  /\ xsrf_token = "tok1"
  /\ acquired_at = StartHour
  /\ api_reqid = 0
  /\ ev = NoEvent
  /\ MainIdle
  /\ PageIdle
  /\ backend \in ThreadBackends
  /\ data = NoData
  /\ TreeIdle
  /\ OtherIdle

SpecThread == InitThread /\ [][NextPage]_vars

\* ------------------------------------------- pagination over a thread: properties
\* the key of get_all_messages: the identifier, or the first 50 characters
\* of the text when there is none
IdOrPrefix(m) ==
  IF m.message_id # None THEN <<m.message_id>> ELSE Prefix(m.text, 50)

\* the elements of a sequence
Range(seq) == { seq[i] : i \in 1..Len(seq) }

\* C13: deduplicating the returned list again removes nothing, and so does
\* deduplicating the messages of a page again; when every page received had
\* the same content, the set of messages returned is the set obtained from
\* that content once.
C13_DedupIdempotent ==
  /\ ev.op = "page" =>
       Dedup(result.messages,
             [i \in 1..Len(result.messages) |-> PageKey(result.messages[i])],
             {}) = result.messages
  /\ pc = "done" =>
       /\ Dedup(unique, [i \in 1..Len(unique) |-> AllKey(unique[i])], {}) = unique
       /\ \A d \in backend :
            backend = {d} /\ Len(responses) >= 1 =>
              LET once == parse_topics_with_threads(d).messages
              IN Range(unique) =
                   Range(Dedup(once, [i \in 1..Len(once) |-> AllKey(once[i])], {}))

\* C13 witness: the same page content was received three times and the
\* list was returned.
C13_Witness ==
  /\ pc = "done"
  /\ Cardinality(backend) = 1
  /\ Len(responses) >= 3
  /\ Len(all_messages) >= 3
  /\ Len(unique) >= 1
  /\ Len(unique) < Len(all_messages)

\* C15: the returned list has no two messages with the same key, every key
\* among the messages of the pages has a message in it, and every message
\* in it is the first one with its key among the messages of the pages.
C15_UniqueByIdOrPrefix ==
  pc = "done" =>
    /\ \A i, j \in 1..Len(unique) :
         i # j => IdOrPrefix(unique[i]) # IdOrPrefix(unique[j])
    /\ \A i \in 1..Len(all_messages) :
         \E k \in 1..Len(unique) : IdOrPrefix(unique[k]) = IdOrPrefix(all_messages[i])
    /\ \A k \in 1..Len(unique) :
         \E i \in 1..Len(all_messages) :
           /\ all_messages[i] = unique[k]
           /\ \A j \in 1..(i - 1) :
                IdOrPrefix(all_messages[j]) # IdOrPrefix(unique[k])

\* C15 witness: the backend gave the same page twice; its two messages have
\* the same identifier and different texts, and one message is returned.
C15_Witness ==
  /\ pc = "done"
  /\ Cardinality(backend) = 1
  /\ Len(responses) >= 2
  /\ Len(all_messages) >= 4
  /\ all_messages[1].message_id = "m1"
  /\ all_messages[2].message_id = "m1"
  /\ all_messages[1].text # all_messages[2].text
  /\ Len(unique) = 1
  /\ unique[1] = all_messages[1]

\* ---------------------------------------------------------- space discovery
\* Identifiers of 11 characters that start with AAAA, and the 21 digit
\* identifier of a direct message.
SpaceIds == {"AAAAspace01", "AAAAspace02"}
DmIds == {"100000000000000000001"}

\* the characters of these identifiers
Id1 == <<"A", "A", "A", "A", "s", "p", "a", "c", "e", "0", "1">>
Id2 == <<"A", "A", "A", "A", "s", "p", "a", "c", "e", "0", "2">>
DmId == [i \in 1..21 |-> IF i \in {1, 21} THEN "1" ELSE "0"]

CharsOf(id) ==
  IF id = "AAAAspace01" THEN Id1 ELSE IF id = "AAAAspace02" THEN Id2 ELSE DmId

\* the identifiers the user adds by hand
AddIds == {"AAAAspace01", "100000000000000000001"}

Space(id, name, type) == [id |-> id, name |-> name, type |-> type]

\* add_space: "space" if space_id.startswith("AAAA") else "dm"
space_type(id) == IF id \in SpaceIds THEN "space" ELSE "dm"

\* {s["id"] for s in spaces}
IdsOf(spaces) == { spaces[i].id : i \in 1..Len(spaces) }

\* What _extract_spaces_from_mole_world finds in the bootstrap page of the
\* client: nothing, a space without a name, spaces with and without one.
MoleLists ==
  { <<>>,
    <<Space("AAAAspace01", None, "space")>>,
    <<Space("AAAAspace02", "mole", "space")>>,
    <<Space("AAAAspace01", "mole", "space"), Space("AAAAspace02", None, "space")>> }

\* The paginated_world call: it raises (ok is FALSE), or it returns a tree
\* in which find_spaces meets these identifiers, in this order, with the
\* name found next to each.
LiveAnswers ==
  { [ok |-> FALSE, found |-> <<>>],
    [ok |-> TRUE, found |-> <<>>],
    [ok |-> TRUE, found |-> <<Space("AAAAspace01", "live", "space")>>],
    [ok |-> TRUE, found |-> <<Space("AAAAspace02", None, "space"),
                              Space("AAAAspace02", "live", "space")>>],
    [ok |-> TRUE, found |-> <<Space("100000000000000000001", None, "dm"),
                              Space("AAAAspace01", None, "space")>>],
    [ok |-> TRUE, found |-> <<Space("100000000000000000001", "live", "dm")>>] }

\* get_group for a space without a name: it returns a name, it returns
\* null as the name, or it raises (an answer without a name gives the same
\* as raising: the identifier).
GroupAnswers == {"named", "null", "raise"}

\* info.get("name", space["id"]), and space["id"] when get_group raises
group_name(id, grp) ==
  IF grp = "named" THEN "group" ELSE IF grp = "null" THEN None ELSE id

RECURSIVE AppendUnseen(_, _)
\* for space in found: if space["id"] not in seen_ids: add and append
AppendUnseen(spaces, found) ==
  IF found = <<>> THEN spaces
  ELSE AppendUnseen(IF Head(found).id \in IdsOf(spaces) THEN spaces
                    ELSE Append(spaces, Head(found)),
                    Tail(found))

extract_spaces_from_pblite_unchecked(found, spaces) == spaces \o found

\* _extract_spaces_from_pblite(data, spaces, seen_ids), on the identifiers
\* the walk over the tree meets
extract_spaces_from_pblite(found, spaces) == AppendUnseen(spaces, found)

\* list_spaces: fetch names for spaces that don't have one
resolve_names(spaces, grp) ==
  [i \in 1..Len(spaces) |->
     IF spaces[i].name = None /\ spaces[i].type = "space"
     THEN [spaces[i] EXCEPT !.name = group_name(spaces[i].id, grp)]
     ELSE spaces[i]]

list_spaces_fetched_only(file, cache, mole, refresh, lv, grp) ==
  IF cache # <<>> /\ ~refresh
  THEN [returned |-> cache, file |-> file, cache |-> cache, fetched |-> FALSE]
  ELSE LET with_mole == AppendUnseen(<<>>, mole)
           with_live == IF lv.ok THEN extract_spaces_from_pblite(lv.found, with_mole)
                        ELSE with_mole
           spaces == resolve_names(with_live, grp)
       IN [returned |-> spaces,
           file |-> IF spaces # <<>> THEN spaces ELSE file,
           cache |-> spaces, fetched |-> TRUE]

\* list_spaces(refresh), given the file, the cache, the spaces of the
\* bootstrap page, the answer lv of paginated_world and the answer grp of
\* get_group.  The bootstrap spaces are merged before the call is awaited,
\* so they stay when the call raises.
list_spaces(file, cache, mole, refresh, lv, grp) ==
  IF cache # <<>> /\ ~refresh
  THEN [returned |-> cache, file |-> file, cache |-> cache, fetched |-> FALSE]
  ELSE LET with_mole == AppendUnseen(file, mole)
           with_live == IF lv.ok THEN extract_spaces_from_pblite(lv.found, with_mole)
                        ELSE with_mole
           spaces == resolve_names(with_live, grp)
       IN [returned |-> spaces,
           file |-> IF spaces # <<>> THEN spaces ELSE file,
           cache |-> spaces, fetched |-> TRUE]

\* add_space(space_id, name)
add_space(file, cache, space_id, name) ==
  IF space_id \in IdsOf(file)
  THEN [file |-> [i \in 1..Len(file) |->
                    IF file[i].id = space_id /\ ~Falsy(name)
                    THEN [file[i] EXCEPT !.name = name] ELSE file[i]],
        cache |-> cache]
  ELSE [file |-> Append(file, Space(space_id,
                                    IF Falsy(name) THEN space_id ELSE name,
                                    space_type(space_id))),
        cache |-> <<>>]

\* A client whose bootstrap page has been fetched; no known_spaces.json yet.
InitSpaces ==
  /\ SessionFields
  /\ MainIdle
  /\ PageIdle
  /\ ParseIdle
  /\ known_spaces = <<>>
  /\ spaces_cache = <<>>
  /\ mole_spaces \in MoleLists
  /\ space_in = NoSpaceIn
  /\ SearchIdle

\* client.add_space(space_id, name)
AddSpace ==
  /\ \E id \in AddIds, name \in {None, "given"} :
       LET r == add_space(known_spaces, spaces_cache, id, name)
       IN /\ known_spaces' = r.file
          /\ spaces_cache' = r.cache
          /\ space_in' = [id |-> id, name |-> name, ok |-> FALSE, found |-> <<>>]
  /\ ev' = Event("add_space", FALSE, FALSE, NoResp, FALSE, None)
  /\ UNCHANGED mole_spaces
  /\ UNCHANGED <<now, authFile, xsrf_token, acquired_at, api_reqid>>
  /\ UNCHANGED <<mainVars, pageVars, parseVars, searchVars>>

\* client.list_spaces(refresh): the whole call, with the answers of the
\* paginated_world and get_group requests it awaits (an answer of get_group
\* is drawn when a space is without a name)
ListSpaces ==
  /\ \E refresh \in BOOLEAN :
     \E lv \in IF spaces_cache # <<>> /\ ~refresh
               THEN {[ok |-> FALSE, found |-> <<>>]} ELSE LiveAnswers :
     \E grp \in IF list_spaces(known_spaces, spaces_cache, mole_spaces,
                               refresh, lv, "named")
                    = list_spaces(known_spaces, spaces_cache, mole_spaces,
                                  refresh, lv, "raise")
                THEN {"raise"} ELSE GroupAnswers :
       LET r == list_spaces(known_spaces, spaces_cache, mole_spaces, refresh, lv, grp)
       IN /\ known_spaces' = r.file
          /\ spaces_cache' = r.cache
          /\ space_in' = [id |-> None, name |-> None, ok |-> lv.ok, found |-> lv.found]
          /\ ev' = Event("list_spaces", refresh, r.fetched, NoResp, FALSE, None)
  /\ UNCHANGED mole_spaces
  /\ UNCHANGED <<now, authFile, xsrf_token, acquired_at, api_reqid>>
  /\ UNCHANGED <<mainVars, pageVars, parseVars, searchVars>>

NextSpaces ==
  \/ AddSpace
  \/ ListSpaces
  \/ NewClient

SpecSpaces == InitSpaces /\ [][NextSpaces]_vars

\* ---------------------------------------------- space discovery: properties
\* the first entry with this identifier in a list that has one
EntryOf(spaces, id) ==
  spaces[CHOOSE i \in 1..Len(spaces) :
           /\ spaces[i].id = id
           /\ \A j \in 1..(i - 1) : spaces[j].id # id]

\* the first of the lists (persisted, bootstrap page, live) that has the
\* identifier
FirstSource(file, mole, found, id) ==
  IF id \in IdsOf(file) THEN file
  ELSE IF id \in IdsOf(mole) THEN mole ELSE found

\* A step of list_spaces that went to the sources returns a list without
\* two entries of one identifier, holding the identifiers of the three
\* sources; each entry has the type and the name of the first source that
\* has the identifier, a name looked up with get_group taking the place of
\* a missing one for type "space".  A list returned from the cache has no
\* identifier twice.  add_space with a name leaves that name in the file.
C17_Step ==
  /\ ev'.op = "list_spaces" =>
       /\ \A i, j \in 1..Len(spaces_cache') :
            i # j => spaces_cache'[i].id # spaces_cache'[j].id
       /\ ev'.bootstrap =>
            /\ IdsOf(spaces_cache') =
                 IdsOf(known_spaces) \cup IdsOf(mole_spaces) \cup IdsOf(space_in'.found)
            /\ \A id \in IdsOf(spaces_cache') :
                 LET e == EntryOf(FirstSource(known_spaces, mole_spaces,
                                              space_in'.found, id), id)
                     r == EntryOf(spaces_cache', id)
                 IN /\ r.type = e.type
                    /\ e.name # None => r.name = e.name
                    /\ e.name = None /\ e.type # "space" => r.name = None
                    /\ e.name = None /\ e.type = "space" =>
                         r.name \in {"group", None, id}
  /\ ev'.op = "add_space" /\ space_in'.name # None =>
       EntryOf(known_spaces', space_in'.id).name = space_in'.name

\* C17: list_spaces merges the persisted list, the spaces of the bootstrap
\* page and the live listing in this order of priority, without an
\* identifier twice; the entry of the first source that has an identifier
\* is the one kept, and add_space with a name overwrites the persisted name.
C17_MergeByPriority == [][C17_Step]_vars

\* C17 witness: a listing went to the sources; AAAAspace01 was persisted
\* under the name given by hand, the bootstrap page and the live listing
\* have it as well, and the list returned carries the persisted name.
C17_Witness ==
  /\ ev.op = "list_spaces"
  /\ ev.bootstrap
  /\ space_in.ok
  /\ "AAAAspace01" \in IdsOf(mole_spaces) \cap IdsOf(space_in.found)
  /\ EntryOf(space_in.found, "AAAAspace01").name = "live"
  /\ EntryOf(mole_spaces, "AAAAspace01").name = "mole"
  /\ "AAAAspace01" \in IdsOf(spaces_cache)
  /\ EntryOf(spaces_cache, "AAAAspace01").name = "given"
  /\ "AAAAspace02" \in IdsOf(spaces_cache)

C18_Step ==
  /\ IdsOf(known_spaces) \subseteq IdsOf(known_spaces')
  /\ Len(known_spaces) <= Len(known_spaces')
  /\ \A i \in 1..Len(known_spaces) :
       /\ known_spaces'[i].id = known_spaces[i].id
       /\ known_spaces'[i].type = known_spaces[i].type

\* C18: no step of list_spaces, add_space or a new client takes an
\* identifier out of the persisted list; an entry keeps its place, its
\* identifier and its type, and entries are appended behind it.
C18_NeverDeleted == [][C18_Step]_vars

\* C18 witness: a listing whose paginated_world call raised, by a client
\* without bootstrap spaces, with two spaces persisted before and after.
C18_Witness ==
  /\ ev.op = "list_spaces"
  /\ ev.bootstrap
  /\ ~space_in.ok
  /\ mole_spaces = <<>>
  /\ Len(known_spaces) >= 2
  /\ spaces_cache = known_spaces

\* C28: the list_spaces() without refresh that follows an add_space(id, name)
\* on the same client returns an entry for id that carries the name.
C28_ListedAfterAdd ==
  [][/\ ev.op = "add_space" /\ space_in.name # None
     /\ ev'.op = "list_spaces" /\ ~ev'.force
     => /\ space_in.id \in IdsOf(spaces_cache')
        /\ EntryOf(spaces_cache', space_in.id).name = space_in.name]_vars

\* C21: a list_spaces whose paginated_world call failed raises to its caller
\* and leaves the persisted space list as it was.
C21_FailedCallAborts ==
  [][ev'.op = "list_spaces" /\ ev'.bootstrap /\ ~space_in'.ok =>
       /\ ev'.raised
       /\ known_spaces' = known_spaces]_vars

\* ------------------------------------------------------------------- search
LowerChar_identity(c) == c

\* str.lower() on one character of the alphabet a, A, b, B, c, x
LowerChar(c) == IF c = "A" THEN "a" ELSE IF c = "B" THEN "b" ELSE c

\* text.lower()
Lower(text) == [i \in 1..Len(text) |-> LowerChar(text[i])]

\* text.find(sub): the lowest index (from 0) at which sub starts, or -1
find(text, sub) ==
  LET starts == { i \in 0..Len(text) :
                    /\ i + Len(sub) <= Len(text)
                    /\ SubSeq(text, i + 1, i + Len(sub)) = sub }
  IN IF starts = {} THEN 0 - 1
     ELSE CHOOSE i \in starts : \A j \in starts : i <= j

\* text[max(0, idx - margin) : min(len(text), idx + len(query) + margin)]
\* for idx = text.lower().find(query_lower)
window(text, q, margin) ==
  LET idx == find(Lower(text), Lower(q))
      start == IF idx - margin > 0 THEN idx - margin ELSE 0
      end == IF idx + Len(q) + margin < Len(text)
             THEN idx + Len(q) + margin ELSE Len(text)
  IN SubSeq(text, start + 1, end)

\* the messages whose lowered text holds the lowered query
matching(messages, q) ==
  SelectSeq(messages, LAMBDA m : find(Lower(m.text), Lower(q)) >= 0)

\* search_in_space on the messages get_messages gave
search_in_space(messages, q) ==
  LET hit == matching(messages, q)
  IN [i \in 1..Len(hit) |->
        [text |-> hit[i].text, timestamp_usec |-> hit[i].timestamp_usec,
         message_id |-> hit[i].message_id,
         snippet |-> <<".", ".", ".">> \o window(hit[i].text, q, 50)
                                       \o <<".", ".", ".">>]]

\* search_all_spaces, loop body: the matches of one space
space_matches(space, messages, q) ==
  LET hit == matching(messages, q)
  IN [i \in 1..Len(hit) |->
        [text |-> hit[i].text, timestamp_usec |-> hit[i].timestamp_usec,
         message_id |-> hit[i].message_id,
         space_id |-> space.id,
         space_name |-> IF Falsy(space.name) THEN space.id ELSE space.name,
         snippet |-> window(hit[i].text, q, 40)]]

RECURSIVE AllMatches(_, _, _)
\* all_matches after the loop over the spaces; a space whose get_messages
\* raised gives nothing
AllMatches(spaces, fetch, q) ==
  IF spaces = <<>> THEN <<>>
  ELSE (IF Head(fetch).ok THEN space_matches(Head(spaces), Head(fetch).messages, q)
        ELSE <<>>)
       \o AllMatches(Tail(spaces), Tail(fetch), q)

\* search_all_spaces(query, max_spaces, messages_per_space) on the list
\* list_spaces gave and on what get_messages gave for spaces[:max_spaces]
search_all_spaces(spaces, fetch, q, max_spaces) ==
  Sorted(AllMatches(Prefix(spaces, max_spaces), fetch, q), TRUE)

execute_search_rpc_empty_list(out, lim) ==
  IF out.raised \/ out.status # HttpOk THEN <<>>
  ELSE <<Prefix(out.hits, lim)>>

\* _execute_search_rpc: <<>> for None, <<results>> for a list
execute_search_rpc(out, lim) ==
  IF out.raised \/ out.status # HttpOk THEN <<>>
  ELSE IF out.hits # <<>> THEN <<Prefix(out.hits, lim)>> ELSE <<>>

\* ---------------------------------------------------------- batch RPC codec
RECURSIVE digits(_)
\* str(n) for n >= 0
digits(n) ==
  LET d == <<"0", "1", "2", "3", "4", "5", "6", "7", "8", "9">>[(n % 10) + 1]
  IN IF n < 10 THEN <<d>> ELSE digits(n \div 10) \o <<d>>

\* json.dumps of one character of a string
escape(c) ==
  IF c = "\"" THEN <<"\\", "\"">>
  ELSE IF c = "\\" THEN <<"\\", "\\">>
  ELSE <<c>>

RECURSIVE escaped(_)
escaped(s) == IF s = <<>> THEN <<>> ELSE escape(Head(s)) \o escaped(Tail(s))

RECURSIVE dumps(_)
RECURSIVE DumpItems(_)

\* the items of an array, serialized, with "," between them
DumpItems(items) ==
  IF items = <<>> THEN <<>>
  ELSE IF Len(items) = 1 THEN dumps(Head(items))
  ELSE dumps(Head(items)) \o <<",">> \o DumpItems(Tail(items))

\* json.dumps(node, separators=(",", ":")) of a tree without objects
dumps(node) ==
  IF node.k = "null" THEN <<"n", "u", "l", "l">>
  ELSE IF node.k = "bool"
  THEN (IF node.v[1] THEN <<"t", "r", "u", "e">> ELSE <<"f", "a", "l", "s", "e">>)
  ELSE IF node.k = "num" THEN digits(node.v[1])
  ELSE IF node.k = "str" THEN <<"\"">> \o escaped(node.v) \o <<"\"">>
  ELSE <<"[">> \o DumpItems(node.v) \o <<"]">>

\* _execute_search_rpc: nested_flags
nested_flags == List(<<Nest(Num(1), 5), Nest(Num(1), 3)>>)

\* _execute_search_rpc: search_config; space_id is <<>> (None or empty) or
\* <<the characters of the identifier>>
search_config(space_id, search_uuid) ==
  List(<<IF space_id # <<>> THEN List(<<List(<<Str(space_id[1])>>)>>) ELSE List(<<>>),
         Null, Null, Null, Str(search_uuid), Null, Num(0), nested_flags>>)

\* _execute_search_rpc: search_params
search_params(q, space_id, lim, search_uuid) ==
  List(<<Null, Null, Null, Str(q), Null, Str(search_uuid),
         List(<<search_config(space_id, search_uuid), Null,
                List(<<Num(3)>>), List(<<Num(lim)>>)>>)>>)

inner_params_whole(inner_params) == inner_params

\* inner_params[:-1]
inner_params_truncated(inner_params) ==
  SubSeq(inner_params, 1, Len(inner_params) - 1)

\* _execute_search_rpc: the array that is serialized into rpc_data
rpc_envelope(q, space_id, lim, search_uuid) ==
  List(<<List(<<List(<<
    Str(<<"S", "B", "N", "m", "J", "b">>),
    Str(inner_params_truncated(dumps(search_params(q, space_id, lim, search_uuid)))),
    Null,
    Str(<<"4">>)>>)>>)>>)

\* ------------------------------------------------------ search: environment
MaxLimit == 2        \* largest limit argument of a search

TextAb == <<"A", "b">>
TextBa == <<"b", "a">>
TextAbab == <<"a", "b", "a", "b">>
TextLong == Pad(55) \o <<"a", "B">> \o Pad(55)
TextC == <<"c", "c">>

Queries == {<<"a", "b">>, <<"B">>, <<"x", "a">>, <<"c">>, <<>>, <<"\"", "b">>}

Msg(text, ts) == [text |-> text, timestamp_usec |-> ts, message_id |-> None]

\* get_messages for one space: it raises, or it returns at most limit
\* messages with different texts, newest first
FetchOutcomes(per_space) ==
  { o \in { [ok |-> FALSE, messages |-> <<>>],
            [ok |-> TRUE, messages |-> <<>>],
            [ok |-> TRUE, messages |-> <<Msg(TextAb, 1)>>],
            [ok |-> TRUE, messages |-> <<Msg(TextAbab, MaxTs), Msg(TextBa, NoneTs)>>],
            [ok |-> TRUE, messages |-> <<Msg(TextLong, 1), Msg(TextC, NoneTs)>>],
            [ok |-> TRUE, messages |-> <<Msg(TextAbab, MaxTs), Msg(TextAb, 1)>>] } :
      Len(o.messages) <= per_space }

Hit(text) == [text |-> text, source |-> "server_search"]

\* The batch RPC attempt: the post raises, the status is not 200, or the
\* response parses into no, one or two results.
RpcOutcomes ==
  { [status |-> 0, raised |-> TRUE, hits |-> <<>>],
    [status |-> 401, raised |-> FALSE, hits |-> <<>>],
    [status |-> HttpOk, raised |-> FALSE, hits |-> <<>>],
    [status |-> HttpOk, raised |-> FALSE, hits |-> <<Hit(TextAb)>>],
    [status |-> HttpOk, raised |-> FALSE, hits |-> <<Hit(TextAb), Hit(TextAbab)>>] }

\* the answers of paginated_world drawn for the listing inside a search
SearchLive ==
  { lv \in LiveAnswers : ~lv.ok \/ (Len(lv.found) = 2 /\ lv.found[1].type = "dm") }

\* the space_id arguments of server_search
SearchSpaceArgs == {None, "AAAAspace01"}

\* uuid.uuid4(), in upper case
Uuids == {<<"4", "F", "-", "A">>}

\* ----------------------------------------------------------- search: actions
\* A client with or without a token; known_spaces.json absent or holding
\* one space added by hand.
InitSearch ==
  /\ now = StartHour
  /\ authFile = <<>>
  /\ xsrf_token \in {None, "tok1"}
  /\ acquired_at = StartHour
  /\ api_reqid = 0
  /\ ev = NoEvent
  /\ MainIdle
  /\ PageIdle
  /\ ParseIdle
  /\ known_spaces \in {<<>>, <<Space("AAAAspace01", "given", "space")>>}
  /\ spaces_cache = <<>>
  /\ mole_spaces = <<>>
  /\ space_in = NoSpaceIn
  /\ SearchIdle

\* server_search(query, space_id, limit) up to the post of the batch RPC:
\* the token check (refresh_tokens raises out of the call) and the counter.
ServerSearchCall ==
  /\ spc = "idle"
  /\ \E q \in Queries, lim \in 1..MaxLimit, sid \in SearchSpaceArgs :
     \E resp \in Answers(Falsy(xsrf_token) /\ load_auth_cache(authFile, now) = <<>>) :
       LET r == ensure_token(xsrf_token, acquired_at, authFile, now, api_reqid, resp)
       IN /\ xsrf_token' = r.xsrf_token
          /\ acquired_at' = r.acquired_at
          /\ authFile' = r.file
          /\ api_reqid' = r.api_reqid
          /\ ev' = Event("search", FALSE, r.bootstrap, resp, r.raised, r.sent)
          /\ spc' = IF r.raised THEN "raised" ELSE "rpc"
          /\ search_log' = IF r.raised THEN <<>> ELSE <<"rpc">>
          /\ query' = q
          /\ limit' = lim
          /\ space_arg' = sid
  /\ UNCHANGED <<rpc, fetched, matches, rpc_call>>
  /\ UNCHANGED now
  /\ UNCHANGED <<mainVars, pageVars, parseVars, spaceVars>>

\* The batch RPC attempt ends: _execute_search_rpc returns a list or None,
\* and server_search returns the list or goes on to the local search.
ExecuteSearchRpc ==
  /\ spc = "rpc"
  /\ \E search_uuid \in Uuids :
       rpc_call' = rpc_envelope(query,
                                IF Falsy(space_arg) THEN <<>>
                                ELSE <<CharsOf(space_arg)>>,
                                limit, search_uuid)
  /\ \E out \in RpcOutcomes :
       LET res == execute_search_rpc(out, limit)
       IN /\ rpc' = out
          /\ IF res # <<>>
             THEN /\ matches' = res[1]
                  /\ spc' = "done"
             ELSE /\ spc' = "local"
                  /\ UNCHANGED matches
  /\ ev' = Event("search_rpc", FALSE, FALSE, NoResp, FALSE, None)
  /\ UNCHANGED <<query, limit, fetched, search_log, space_arg>>
  /\ UNCHANGED <<now, authFile, xsrf_token, acquired_at, api_reqid>>
  /\ UNCHANGED <<mainVars, pageVars, parseVars, spaceVars>>

\* search_all_spaces(q, max_spaces, per_space) as a whole: list_spaces(),
\* one get_messages per space, the matches, the sort.
SearchAllSpacesBody(op, q, max_spaces, per_space, log) ==
  \E lv \in IF spaces_cache # <<>> THEN {[ok |-> FALSE, found |-> <<>>]}
            ELSE SearchLive :
  \E grp \in IF list_spaces(known_spaces, spaces_cache, mole_spaces,
                            FALSE, lv, "named")
                 = list_spaces(known_spaces, spaces_cache, mole_spaces,
                               FALSE, lv, "raise")
             THEN {"raise"} ELSE {"named", "raise"} :
    LET r == list_spaces(known_spaces, spaces_cache, mole_spaces, FALSE, lv, grp)
        spaces == Prefix(r.returned, max_spaces)
    IN \E fetch \in [1..Len(spaces) -> FetchOutcomes(per_space)] :
         /\ known_spaces' = r.file
         /\ spaces_cache' = r.cache
         /\ space_in' = [id |-> None, name |-> None, ok |-> lv.ok, found |-> lv.found]
         /\ fetched' = fetch
         /\ matches' = search_all_spaces(r.returned, fetch, q, max_spaces)
         /\ query' = q
         /\ spc' = "done"
         /\ search_log' = log
         /\ ev' = Event(op, FALSE, r.fetched, NoResp, FALSE, None)
         /\ UNCHANGED <<limit, rpc, mole_spaces, space_arg, rpc_call>>
         /\ UNCHANGED <<now, authFile, xsrf_token, acquired_at, api_reqid>>
         /\ UNCHANGED <<mainVars, pageVars, parseVars>>

\* server_search, the fall back:
\* _local_search_all_spaces(query, limit) is
\* search_all_spaces(query, max_spaces=10, messages_per_space=limit)
LocalSearchAllSpaces ==
  /\ spc = "local"
  /\ SearchAllSpacesBody("local_search", query, 10, limit,
                         Append(search_log, "local"))

\* client.search_all_spaces(query), with max_spaces=20 and
\* messages_per_space=50
SearchAllSpaces ==
  /\ spc = "idle"
  /\ \E q \in Queries : SearchAllSpacesBody("search_all_spaces", q, 20, 50, <<>>)

\* client.search_in_space(space_id, query), with limit=100: a raising
\* get_messages raises out of the call
SearchInSpace ==
  /\ spc = "idle"
  /\ \E q \in Queries, o \in FetchOutcomes(100) :
       /\ query' = q
       /\ fetched' = <<o>>
       /\ matches' = IF o.ok THEN search_in_space(o.messages, q) ELSE <<>>
       /\ spc' = IF o.ok THEN "done" ELSE "raised"
       /\ ev' = Event("search_in_space", FALSE, FALSE, NoResp, ~o.ok, None)
  /\ UNCHANGED <<limit, rpc, search_log, space_arg, rpc_call>>
  /\ UNCHANGED <<now, authFile, xsrf_token, acquired_at, api_reqid>>
  /\ UNCHANGED <<mainVars, pageVars, parseVars, spaceVars>>

NextSearch ==
  \/ ServerSearchCall
  \/ ExecuteSearchRpc
  \/ LocalSearchAllSpaces
  \/ SearchAllSpaces
  \/ SearchInSpace

SpecSearch == InitSearch /\ [][NextSearch]_vars

\* -------------------------------------------------------- search: properties
\* the batch RPC attempt ended without a result: it raised, the status was
\* not 200, or the result set was empty
AttemptFailed == rpc.raised \/ rpc.status # HttpOk \/ rpc.hits = <<>>

\* C19: the local search of server_search runs only behind the batch RPC
\* attempt; when the attempt ended in an exception, a status other than 200
\* or an empty result set, server_search goes on to the local search and
\* returns its results without raising; when the attempt gave a hit, it
\* returns the hits and no local search runs.
C19_ServerFirstLocalOnFailure ==
  /\ "local" \in Range(search_log) => search_log = <<"rpc", "local">>
  /\ spc = "local" => search_log = <<"rpc">> /\ ev.op = "search_rpc"
  /\ spc = "raised" /\ ev.op = "search" => search_log = <<>>
  /\ ev.op = "search_rpc" =>
       /\ search_log = <<"rpc">>
       /\ AttemptFailed <=> spc = "local"
       /\ ~AttemptFailed <=> spc = "done"
       /\ ~AttemptFailed => matches = Prefix(rpc.hits, limit)
  /\ ev.op = "local_search" =>
       /\ AttemptFailed
       /\ spc = "done"
       /\ matches = search_all_spaces(spaces_cache, fetched, query, 10)

\* C19 witness: the batch RPC was answered with status 401, the local
\* search ran and its two matches were returned.
C19_Witness ==
  /\ ev.op = "local_search"
  /\ spc = "done"
  /\ rpc.status = 401
  /\ search_log = <<"rpc", "local">>
  /\ Len(matches) = 2

\* two characters that are the same letter
SameLetter(c, d) == c = d \/ {c, d} = {"a", "A"} \/ {c, d} = {"b", "B"}

\* the query stands in the text at position i, whatever the case
OccursAt(text, q, i) ==
  /\ i + Len(q) - 1 <= Len(text)
  /\ \A k \in 1..Len(q) : SameLetter(text[i + k - 1], q[k])

Holds(text, q) == \E i \in 1..(Len(text) + 1) : OccursAt(text, q, i)

\* snip is a stretch of the text that holds an occurrence of the query
IsWindow(snip, text, q) ==
  \E a \in 1..(Len(text) - Len(snip) + 1) :
    /\ snip = SubSeq(text, a, a + Len(snip) - 1)
    /\ \E i \in a..(a + Len(snip) - Len(q)) : OccursAt(text, q, i)

\* the number of results for this text (in this space, when given)
Results(text, space_id) ==
  Cardinality({ k \in 1..Len(matches) :
                  /\ matches[k].text = text
                  /\ space_id # None => matches[k].space_id = space_id })

\* C20: a local search returns one result for every fetched message whose
\* text holds the query, whatever the case, none for the other messages and
\* nothing else; the snippet of a result is a stretch of its text around an
\* occurrence of the query (between "..." for search_in_space).
C20_LocalSearchExact ==
  /\ ev.op \in {"local_search", "search_all_spaces"} =>
       /\ Len(fetched) = Len(spaces_cache)
       /\ \A i \in 1..Len(fetched) :
            \A j \in 1..Len(fetched[i].messages) :
              Results(fetched[i].messages[j].text, spaces_cache[i].id)
                = IF Holds(fetched[i].messages[j].text, query) THEN 1 ELSE 0
       /\ \A k \in 1..Len(matches) :
            /\ \E i \in 1..Len(fetched) :
                 /\ spaces_cache[i].id = matches[k].space_id
                 /\ \E j \in 1..Len(fetched[i].messages) :
                      fetched[i].messages[j].text = matches[k].text
            /\ IsWindow(matches[k].snippet, matches[k].text, query)
  /\ ev.op = "search_in_space" /\ spc = "done" =>
       /\ \A j \in 1..Len(fetched[1].messages) :
            Results(fetched[1].messages[j].text, None)
              = IF Holds(fetched[1].messages[j].text, query) THEN 1 ELSE 0
       /\ \A k \in 1..Len(matches) :
            /\ \E j \in 1..Len(fetched[1].messages) :
                 fetched[1].messages[j].text = matches[k].text
            /\ Len(matches[k].snippet) >= 6
            /\ SubSeq(matches[k].snippet, 1, 3) = <<".", ".", ".">>
            /\ SubSeq(matches[k].snippet, Len(matches[k].snippet) - 2,
                      Len(matches[k].snippet)) = <<".", ".", ".">>
            /\ IsWindow(SubSeq(matches[k].snippet, 4, Len(matches[k].snippet) - 3),
                        matches[k].text, query)

\* C20 witness: a search over two spaces for "ab"; the long message of the
\* first space matches in another case and its snippet leaves out both ends
\* of the text, the other message of that space does not match, and the
\* second space gives a match as well.
C20_Witness ==
  /\ ev.op = "search_all_spaces"
  /\ query = <<"a", "b">>
  /\ Len(fetched) = 2
  /\ fetched[1].ok
  /\ Len(fetched[1].messages) = 2
  /\ fetched[1].messages[1].text = TextLong
  /\ Len(matches) = 2
  /\ \E k \in 1..2 :
       /\ matches[k].text = TextLong
       /\ Len(matches[k].snippet) = 82
  /\ \A k \in 1..2 : matches[k].text # TextC

\* The serialized parameters, piece by piece: the text json.dumps gives for
\* [null,null,null,q,null,uuid,[[filter,null,null,null,uuid,null,0,flags],
\* null,[3],[limit]]] without blanks.
ParamsText(q, space_id, lim, search_uuid) ==
  <<"[", "n", "u", "l", "l", ",", "n", "u", "l", "l", ",", "n", "u", "l",
    "l", ",">>
  \o <<"\"">> \o escaped(q) \o <<"\"">>
  \o <<",", "n", "u", "l", "l", ",">>
  \o <<"\"">> \o search_uuid \o <<"\"">>
  \o <<",", "[", "[">>
  \o (IF space_id = None THEN <<"[", "]">>
      ELSE <<"[", "[", "\"">> \o CharsOf(space_id) \o <<"\"", "]", "]">>)
  \o <<",", "n", "u", "l", "l", ",", "n", "u", "l", "l", ",", "n", "u", "l",
       "l", ",">>
  \o <<"\"">> \o search_uuid \o <<"\"">>
  \o <<",", "n", "u", "l", "l", ",", "0", ",", "[", "[", "[", "[", "[", "[",
       "1", "]", "]", "]", "]", "]", ",", "[", "[", "[", "1", "]", "]", "]",
       "]", "]", ",", "n", "u", "l", "l", ",", "[", "3", "]", ",", "[">>
  \o digits(lim)
  \o <<"]", "]", "]">>

\* the second element of the one call in the envelope
Payload == At(At(At(rpc_call, 0), 0), 1).v

\* C26: the payload in the envelope of the batch RPC, with the closing
\* bracket put back, is character by character the compact serialization of
\* the parameter array for the query, the space filter and the limit of the
\* call.
C26_PayloadTruncated ==
  ev.op = "search_rpc" =>
    /\ rpc_call.k = "list" /\ Len(rpc_call.v) = 1
    /\ Len(At(rpc_call, 0).v) = 1
    /\ Len(At(At(rpc_call, 0), 0).v) = 4
    /\ At(At(At(rpc_call, 0), 0), 0) = Str(<<"S", "B", "N", "m", "J", "b">>)
    /\ \E search_uuid \in Uuids :
         Payload \o <<"]">> = ParamsText(query, space_arg, limit, search_uuid)

\* C26 witness: the search for "ab" in AAAAspace01 with limit 2 sent
\* [null,null,null,"ab",null,"4F-A",[[[["AAAAspace01"]],null,null,null,
\* "4F-A",null,0,[[[[[[1]]]]],[[[1]]]]],null,[3],[2]] without its last
\* bracket.
C26_Witness ==
  /\ ev.op = "search_rpc"
  /\ query = <<"a", "b">>
  /\ space_arg = "AAAAspace01"
  /\ limit = 2
  /\ Payload =
       <<"[", "n", "u", "l", "l", ",", "n", "u", "l", "l", ",", "n", "u",
         "l", "l", ",", "\"", "a", "b", "\"", ",", "n", "u", "l", "l", ",",
         "\"", "4", "F", "-", "A", "\"", ",", "[", "[", "[", "[", "\"", "A",
         "A", "A", "A", "s", "p", "a", "c", "e", "0", "1", "\"", "]", "]",
         ",", "n", "u", "l", "l", ",", "n", "u", "l", "l", ",", "n", "u",
         "l", "l", ",", "\"", "4", "F", "-", "A", "\"", ",", "n", "u", "l",
         "l", ",", "0", ",", "[", "[", "[", "[", "[", "[", "1", "]", "]",
         "]", "]", "]", ",", "[", "[", "[", "1", "]", "]", "]", "]", "]",
         ",", "n", "u", "l", "l", ",", "[", "3", "]", ",", "[", "2", "]",
         "]">>

\* C29: a server_search called with a space identifier returns results of
\* that space only: the batch RPC carries the space filter, and every result
\* of the local search is from that space.
C29_ResultsFromSpace ==
  spc = "done" /\ space_arg # None =>
    /\ ev.op = "search_rpc" =>
         \E search_uuid \in Uuids :
           Payload \o <<"]">> = ParamsText(query, space_arg, limit, search_uuid)
    /\ ev.op = "local_search" =>
         \A k \in 1..Len(matches) : matches[k].space_id = space_arg

\* C30: server_search returns at most limit results, from the batch RPC
\* and from the local search.
C30_AtMostLimit ==
  spc = "done" /\ ev.op \in {"search_rpc", "local_search"} =>
    Len(matches) <= limit

\* ------------------------------------------------------ structural inference
\* isinstance(x, list), isinstance(x, str), isinstance(x, int) (a bool is an int)
IsList(x) == x.k = "list"
IsStr(x) == x.k = "str"
IsInt(x) == x.k \in {"num", "bool"}

\* the integer an int node stands for (True is 1, False is 0)
IntOf(x) == IF x.k = "bool" THEN (IF x.v[1] THEN 1 ELSE 0) ELSE x.v[1]

DigitChars == {"0", "1", "2", "3", "4", "5", "6", "7", "8", "9"}
UpperChars == {"A", "M", "R", "T"}

\* str.isdigit()
isdigit(s) == s # <<>> /\ \A i \in 1..Len(s) : s[i] \in DigitChars

\* str.startswith(prefix)
startswith(s, prefix) ==
  Len(s) >= Len(prefix) /\ SubSeq(s, 1, Len(prefix)) = prefix

\* " " in item
has_blank(s) == \E i \in 1..Len(s) : s[i] = " "

AAAA == <<"A", "A", "A", "A">>
Http == <<"h", "t", "t", "p">>

\* len(item) == 11 and item.startswith("AAAA")
is_space_id(s) == Len(s) = 11 /\ startswith(s, AAAA)

\* len(sub) == 21 and sub.isdigit()
is_dm_id(s) == Len(s) = 21 /\ isdigit(s)

\* _find_spaces_in_data, the operand to the left of `or` in the test for a
\* room name
name_like(s) ==
  /\ 3 < Len(s) /\ Len(s) < 80
  /\ ~isdigit(s)
  /\ ~startswith(s, Http)
  /\ ~startswith(s, AAAA)
  /\ has_blank(s)

\* a dict entry of the spaces list; name is <<>> for None, else <<name>>
SpaceEntry(id, name, type) == [id |-> id, name |-> name, type |-> type]

RECURSIVE find_spaces_in_data(_, _, _)
RECURSIVE FindInValues(_, _, _)
RECURSIVE FindInItems(_, _, _)

\* _find_spaces_in_data: for value in data.values()
FindInValues(values, acc, depth) ==
  IF values = <<>> \/ acc.raised THEN acc
  ELSE FindInValues(Tail(values),
                    find_spaces_in_data(Head(values), acc, depth + 1), depth)

\* _find_spaces_in_data: for item in data, with the locals space_id and
\* space_name (<<>> for None); item[0] of an empty string raises IndexError
FindInItems(items, st, depth) ==
  IF items = <<>> \/ st.raised THEN st
  ELSE LET item == Head(items)
       IN FindInItems(
            Tail(items),
            IF IsStr(item)
            THEN IF is_space_id(item.v)
                 THEN [st EXCEPT !.space_id = <<item.v>>]
                 ELSE IF name_like(item.v)
                 THEN [st EXCEPT !.space_name =
                         IF st.space_name = <<>> THEN <<item.v>> ELSE @]
                 ELSE IF item.v = <<>>
                 THEN [st EXCEPT !.raised = TRUE]
                 ELSE IF item.v[1] \in UpperChars
                 THEN [st EXCEPT !.space_name =
                         IF st.space_name = <<>> THEN <<item.v>> ELSE @]
                 ELSE st
            ELSE IF IsList(item)
            THEN LET r == find_spaces_in_data(
                            item, [raised |-> FALSE, spaces |-> st.spaces],
                            depth + 1)
                 IN [st EXCEPT !.raised = r.raised, !.spaces = r.spaces]
            ELSE st,
            depth)

\* _find_spaces_in_data(data, spaces, depth) with acc = [raised, spaces]:
\* the spaces list afterwards and whether the walk raised
find_spaces_in_data(d, acc, depth) ==
  IF acc.raised \/ depth > 30 \/ d.k \notin {"list", "dict"} THEN acc
  ELSE IF d.k = "dict" THEN FindInValues(d.v, acc, depth)
  ELSE LET st == FindInItems(d.v,
                             [raised |-> FALSE, spaces |-> acc.spaces,
                              space_id |-> <<>>, space_name |-> <<>>],
                             depth)
       IN IF st.raised THEN [raised |-> TRUE, spaces |-> st.spaces]
          ELSE IF st.space_id # <<>>
                  /\ \A i \in 1..Len(st.spaces) : st.spaces[i].id # st.space_id[1]
          THEN [raised |-> FALSE,
                spaces |-> Append(st.spaces,
                                  SpaceEntry(st.space_id[1], st.space_name, "space"))]
          ELSE [raised |-> FALSE, spaces |-> st.spaces]

\* find_spaces: an identifier met in a list element, with its type
WithId(st, s) ==
  IF is_space_id(s) THEN [st EXCEPT !.space_id = <<s>>, !.space_type = "space"]
  ELSE IF is_dm_id(s) THEN [st EXCEPT !.space_id = <<s>>, !.space_type = "dm"]
  ELSE st

RECURSIVE ScanDeep(_, _)
\* find_spaces: for deep in nested
ScanDeep(deep, st) ==
  IF deep = <<>> THEN st
  ELSE ScanDeep(Tail(deep),
                IF IsStr(Head(deep)) /\ is_space_id(Head(deep).v)
                THEN [st EXCEPT !.space_id = <<Head(deep).v>>,
                                !.space_type = "space"]
                ELSE st)

RECURSIVE ScanNested(_, _)
\* find_spaces: for nested in sub
ScanNested(nested, st) ==
  IF nested = <<>> THEN st
  ELSE ScanNested(Tail(nested),
                  IF IsStr(Head(nested)) THEN WithId(st, Head(nested).v)
                  ELSE IF IsList(Head(nested)) THEN ScanDeep(Head(nested).v, st)
                  ELSE st)

RECURSIVE ScanSubs(_, _)
\* find_spaces: for sub in item
ScanSubs(subs, st) ==
  IF subs = <<>> THEN st
  ELSE LET sub == Head(subs)
       IN ScanSubs(
            Tail(subs),
            IF IsStr(sub)
            THEN IF is_space_id(sub.v) \/ is_dm_id(sub.v) THEN WithId(st, sub.v)
                 ELSE IF /\ 3 < Len(sub.v) /\ Len(sub.v) < 100
                         /\ ~isdigit(sub.v)
                         /\ ~startswith(sub.v, Http)
                         /\ st.space_name = <<>>
                 THEN [st EXCEPT !.space_name = <<sub.v>>]
                 ELSE st
            ELSE IF IsList(sub) THEN ScanNested(sub.v, st)
            ELSE st)

RECURSIVE find_spaces(_, _)
RECURSIVE FindSpacesItems(_, _)

\* find_spaces: for item in arr; the entries it would append were no
\* identifier seen yet, in the order of the walk
FindSpacesItems(items, depth) ==
  IF items = <<>> THEN <<>>
  ELSE (IF IsList(Head(items))
        THEN LET st == ScanSubs(Head(items).v,
                                [space_id |-> <<>>, space_name |-> <<>>,
                                 space_type |-> "unknown"])
             IN (IF st.space_id # <<>>
                 THEN <<SpaceEntry(st.space_id[1], st.space_name, st.space_type)>>
                 ELSE <<>>)
                \o find_spaces(Head(items), depth + 1)
        ELSE <<>>)
       \o FindSpacesItems(Tail(items), depth)

\* find_spaces(arr, depth) of _extract_spaces_from_pblite
find_spaces(arr, depth) ==
  IF depth > 25 \/ ~IsList(arr) THEN <<>>
  ELSE FindSpacesItems(arr.v, depth)

\* int(c) for a digit character
DigitValue(c) ==
  CHOOSE n \in 0..9 : <<"0", "1", "2", "3", "4", "5", "6", "7", "8", "9">>[n + 1] = c

RECURSIVE to_int(_)
\* int(ts) for a string of digits
to_int(s) ==
  IF s = <<>> THEN 0
  ELSE 10 * to_int(SubSeq(s, 1, Len(s) - 1)) + DigitValue(s[Len(s)])

\* An optional string is <<>> (None) or <<s>>; bool(o) in Python
Truthy(o) == o # <<>> /\ o[1] # <<>>

\* arr[0][1] when arr[0] is a list of more than one element and arr[0][1] a
\* str: the topic id of a topic array, the message id of a message array
slot_id(arr) ==
  IF /\ Len(arr.v) > 0
     /\ IsList(At(arr, 0))
     /\ Len(At(arr, 0).v) > 1
     /\ IsStr(At(At(arr, 0), 1))
  THEN <<At(At(arr, 0), 1).v>>
  ELSE <<>>

\* the timestamp at arr[i]: int(ts) for a string of digits, ts for an int
slot_ts(arr, i) ==
  IF Len(arr.v) > i
  THEN LET ts == At(arr, i)
       IN IF IsStr(ts) /\ isdigit(ts.v) THEN to_int(ts.v)
          ELSE IF IsInt(ts) THEN IntOf(ts)
          ELSE NoneTs
  ELSE NoneTs

message_slots_text_at_8(arr) ==
  [m0 |-> slot_id(arr),
   m2 |-> slot_ts(arr, 2),
   m9 |-> IF IsStr(At(arr, 8)) THEN At(arr, 8).v ELSE <<>>]

\* try_parse_message: the slots it reads of an array of ten or more elements
message_slots(arr) ==
  [m0 |-> slot_id(arr),
   m2 |-> slot_ts(arr, 2),
   m9 |-> IF IsStr(At(arr, 9)) THEN At(arr, 9).v ELSE <<>>]

\* try_parse_message(arr, topic_id) on a value tree: <<>> for None
try_parse_message_tree(arr, topic_id) ==
  IF ~IsList(arr) \/ Len(arr.v) < 10 THEN <<>>
  ELSE try_parse_message(message_slots(arr), topic_id)

RECURSIVE ParseAllTree(_, _)
\* extract_topic_and_messages: for msg_arr in arr[6]
ParseAllTree(items, topic_id) ==
  IF items = <<>> THEN <<>>
  ELSE try_parse_message_tree(Head(items), topic_id)
       \o ParseAllTree(Tail(items), topic_id)

RECURSIVE extract_topic_and_messages_tree(_, _, _, _)
RECURSIVE Fallback(_, _, _, _)

\* extract_topic_and_messages: the fallback scan, for idx, item in
\* enumerate(arr), with st = [acc, msgs]: the state of the enclosing parse
\* and topic_messages
Fallback(items, st, depth, topic_id) ==
  IF items = <<>> THEN st
  ELSE LET item == Head(items)
           msg == try_parse_message_tree(item, topic_id)
       IN Fallback(Tail(items),
                   IF ~IsList(item) THEN st
                   ELSE IF msg # <<>> THEN [st EXCEPT !.msgs = @ \o msg]
                   ELSE [st EXCEPT !.acc =
                           extract_topic_and_messages_tree(@, item, depth + 1,
                                                           topic_id)],
                   depth, topic_id)

\* extract_topic_and_messages(arr, depth, parent_topic_id) on a value tree,
\* given the state acc = [topics, messages, oldest_timestamp] of the
\* enclosing parse
extract_topic_and_messages_tree(acc, arr, depth, parent_topic_id) ==
  IF depth > 30 \/ ~IsList(arr) THEN acc
  ELSE LET topic_id == slot_id(arr)
           topic_timestamp == slot_ts(arr, 1)
           tid == IF Truthy(topic_id) THEN topic_id ELSE parent_topic_id
           known == IF Len(arr.v) > 6 /\ IsList(At(arr, 6))
                    THEN ParseAllTree(At(arr, 6).v, tid)
                    ELSE <<>>
           st == IF known = <<>>
                 THEN Fallback(arr.v, [acc |-> acc, msgs |-> <<>>], depth, tid)
                 ELSE [acc |-> acc, msgs |-> known]
           sorted_msgs == Marked(Sorted(st.msgs, FALSE))
       IN IF Truthy(topic_id) /\ st.msgs # <<>>
          THEN [topics |-> Append(st.acc.topics,
                                  [topic_id |-> topic_id,
                                   timestamp |-> topic_timestamp,
                                   message_count |-> Len(sorted_msgs),
                                   replies |-> sorted_msgs]),
                messages |-> st.acc.messages \o sorted_msgs,
                oldest_timestamp |-> Oldest(st.acc.oldest_timestamp, st.msgs)]
          ELSE st.acc

RECURSIVE ExtractTopicsTree(_, _)
\* _parse_topics_with_threads: for topic_data in topics_array
ExtractTopicsTree(acc, topics_array) ==
  IF topics_array = <<>> THEN acc
  ELSE ExtractTopicsTree(
         extract_topic_and_messages_tree(acc, Head(topics_array), 0, <<>>),
         Tail(topics_array))

\* _parse_topics_with_threads(data, space_id) on a value tree
parse_topics_with_threads_tree(d) ==
  LET topics_array ==
        IF /\ IsList(d) /\ Len(d.v) > 0
           /\ IsList(At(d, 0)) /\ Len(At(d, 0).v) > 1
           /\ IsList(At(At(d, 0), 1))
        THEN At(At(d, 0), 1).v
        ELSE <<>>
      acc0 == [topics |-> <<>>, messages |-> <<>>, oldest_timestamp |-> NoneTs]
      acc == IF topics_array # <<>>
             THEN ExtractTopicsTree(acc0, topics_array)
             ELSE extract_topic_and_messages_tree(acc0, d, 0, <<>>)
      contains_last_topic ==
        /\ IsList(d) /\ Len(d.v) > 4
        /\ At(d, 4).k = "bool" /\ At(d, 4).v[1]
      messages == Sorted(acc.messages, TRUE)
  IN [messages |-> Dedup(messages,
                         [i \in 1..Len(messages) |-> PageKey(messages[i])], {}),
      topics |-> acc.topics,
      has_more |-> has_more(acc.topics, contains_last_topic,
                            acc.oldest_timestamp),
      next_cursor |-> acc.oldest_timestamp,
      contains_last_topic |-> contains_last_topic]

\* ------------------------------------------- structural inference: trees
RoomName == <<"m", "y", " ", "r", "o", "o", "m">>
Title == <<"R", "o", "o", "m">>
Hello == <<"h", "e", "l", "l", "o", " ", "w", "o", "r", "l", "d">>
Stray == <<"s", "t", "r", "a", "y">>

\* What a slot can hold that is neither a list nor an object.
Scalars ==
  {Null, Bool(TRUE), Num(5), Str(<<>>), Str(Id1), Str(Id2), Str(DmId),
   Str(RoomName), Str(Title)}

\* Arrays of up to two scalars.
Flat ==
  {List(<<>>)} \cup {List(<<a>>) : a \in Scalars}
               \cup {List(<<a, b>>) : a, b \in Scalars}

\* A scalar, or an array of at most one scalar.
Small == Scalars \cup {List(<<>>)} \cup {List(<<a>>) : a \in Scalars}

\* Responses in which space identifiers sit at the top, next to other
\* strings, in nested arrays, in objects, and up to MaxNest arrays deep.
SpaceTrees ==
  Scalars \cup Flat
    \cup {Dict(<<t>>) : t \in Flat}
    \cup {List(<<t>>) : t \in Flat}
    \cup {List(<<t, u>>) : t, u \in Small}
    \cup {Nest(Str(Id1), n) : n \in 1..MaxNest}

\* A message array: the id at [0][1], the sender at [1][0][0], the
\* timestamp at [2], the text at [9].
MsgArray(id, ts, text) ==
  List(<<List(<<Null, id>>), List(<<List(<<Str(<<"u", "1">>)>>)>>), ts,
         Null, Null, Null, Null, Null, Null, text>>)

\* An array of nine elements, one short of a message, with a text in its
\* last slot.
ShortArray ==
  List(<<List(<<Null, Str(<<"M", "1">>)>>), Null, Num(5),
         Null, Null, Null, Null, Null, Str(Hello)>>)

TreeMessages ==
  {MsgArray(Str(<<"M", "1">>), ts, text) :
     ts \in {Str(<<"1", "7">>), Num(5), Null},
     text \in {Str(Hello), Str(<<"b">>), Null}}
  \cup {MsgArray(Null, Num(5), Str(<<>>)), ShortArray}

\* A topic array: the id at [0][1], the timestamp at [1], the message
\* arrays at [6]; slot 2 is null or holds a message array of its own.
TopicArray(id, slot2, slot6) ==
  List(<<List(<<Null, id>>), Str(<<"1", "7">>), slot2, Null, Null, Null, slot6>>)

TopicTrees ==
  {TopicArray(id, slot2, slot6) :
     id \in {Str(<<"T", "1">>), Null},
     slot2 \in {Null, MsgArray(Str(<<"M", "2">>), Num(9), Str(Stray))},
     slot6 \in {Null, List(<<>>)}
               \cup {List(<<m>>) : m \in TreeMessages}
               \cup {List(<<m, n>>) : m, n \in TreeMessages}}

\* A list_topics response: the topics at [0][1], contains_last_topic at [4].
Response(topics, last) ==
  List(<<List(<<Null, List(topics)>>), Null, Null, Null, Bool(last)>>)

\* Responses of one topic, and topic arrays on their own.
ResponseTrees ==
  {Response(<<t>>, last) : t \in TopicTrees, last \in BOOLEAN} \cup TopicTrees

\* A decoded response is at hand.
InitExtract ==
  /\ SessionFields
  /\ MainIdle
  /\ PageIdle
  /\ backend = {}
  /\ data = NoData
  /\ tree \in SpaceTrees \cup ResponseTrees
  /\ extracted = NoOut
  /\ OtherIdle

\* what an extractor step leaves alone
ExtractFrame ==
  /\ UNCHANGED <<backend, data, tree>>
  /\ UNCHANGED <<pc, max_pages, page_num, cursor, all_messages, requests,
                 responses, unique>>
  /\ UNCHANGED <<now, authFile, xsrf_token, acquired_at, api_reqid>>
  /\ UNCHANGED <<mainVars, spaceVars, searchVars>>

\* self._find_spaces_in_data(data, spaces) with an empty spaces list
FindSpacesInData ==
  /\ LET r == find_spaces_in_data(tree, [raised |-> FALSE, spaces |-> <<>>], 0)
     IN /\ extracted' = [op |-> "find_spaces_in_data", raised |-> r.raised,
                         spaces |-> r.spaces]
        /\ ev' = Event("find_spaces_in_data", FALSE, FALSE, NoResp, r.raised, None)
  /\ UNCHANGED result
  /\ ExtractFrame

\* self._extract_spaces_from_pblite(data, spaces, seen_ids) with an empty
\* spaces list and no identifier seen
ExtractSpacesFromPblite ==
  /\ extracted' = [op |-> "extract_spaces_from_pblite", raised |-> FALSE,
                   spaces |-> extract_spaces_from_pblite(find_spaces(tree, 0), <<>>)]
  /\ ev' = Event("extract_spaces_from_pblite", FALSE, FALSE, NoResp, FALSE, None)
  /\ UNCHANGED result
  /\ ExtractFrame

\* self._parse_topics_with_threads(data, space_id) on the decoded response
ParseTree ==
  /\ result' = parse_topics_with_threads_tree(tree)
  /\ extracted' = [op |-> "parse_topics_with_threads", raised |-> FALSE,
                   spaces |-> <<>>]
  /\ ev' = Event("parse_topics_with_threads", FALSE, FALSE, NoResp, FALSE, None)
  /\ ExtractFrame

NextExtract ==
  \/ FindSpacesInData
  \/ ExtractSpacesFromPblite
  \/ ParseTree

SpecExtract == InitExtract /\ [][NextExtract]_vars

\* ------------------------------------- structural inference: properties
\* C22: no extractor raises, whatever the shape of the value tree it is
\* given.
C22_NeverThrows == ~extracted.raised

RECURSIVE SpaceIdsIn(_)
\* the strings of length 11 that start with AAAA, anywhere in a value tree
SpaceIdsIn(node) ==
  IF node.k = "str" THEN (IF is_space_id(node.v) THEN {node.v} ELSE {})
  ELSE IF node.k \in {"list", "dict"}
  THEN UNION { SpaceIdsIn(node.v[i]) : i \in 1..Len(node.v) }
  ELSE {}

\* C24: a space extractor that ran to its end over a response array returns,
\* for every string of length 11 starting with AAAA in the tree, an entry
\* with that identifier and type "space".
C24_EveryIdExtracted ==
  /\ extracted.op \in {"find_spaces_in_data", "extract_spaces_from_pblite"}
  /\ ~extracted.raised
  /\ IsList(tree)
  => \A id \in SpaceIdsIn(tree) :
       \E i \in 1..Len(extracted.spaces) :
         /\ extracted.spaces[i].id = id
         /\ extracted.spaces[i].type = "space"

\* an array of ten or more elements with a text at slot 9
IsMessageArray(x) ==
  IsList(x) /\ Len(x.v) >= 10 /\ IsStr(At(x, 9)) /\ At(x, 9).v # <<>>

\* the message arrays in the array at slot 6 of a topic array
Slot6Messages(t) ==
  IF Len(t.v) > 6 /\ IsList(At(t, 6))
  THEN SelectSeq(At(t, 6).v, IsMessageArray)
  ELSE <<>>

\* the topic array of a response of ResponseTrees
TopicOf(t) == IF t \in TopicTrees THEN t ELSE At(At(t, 0), 1).v[1]

\* C25: a topic array with an id at [0][1] and message arrays at [6] gives
\* one topic with that id, the timestamp of slot 1 and exactly the messages
\* of slot 6, the first of them the root; a single message is the root with
\* its text from slot 9; a message array elsewhere in the topic array is not
\* picked up, the fallback scan not having run.
C25_TopicFromKnownSlots ==
  ev.op = "parse_topics_with_threads" /\ tree \in ResponseTrees =>
    LET t == TopicOf(tree)
        id == At(At(t, 0), 1)
        in6 == Slot6Messages(t)
    IN IsStr(id) /\ in6 # <<>> =>
         /\ Len(result.topics) = 1
         /\ result.topics[1].topic_id = <<id.v>>
         /\ result.topics[1].timestamp = 17
         /\ result.topics[1].message_count = Len(in6)
         /\ LET replies == result.topics[1].replies
            IN /\ Len(replies) = Len(in6)
               /\ { replies[i].text : i \in 1..Len(replies) }
                    = { At(in6[j], 9).v : j \in 1..Len(in6) }
               /\ \A i \in 1..Len(replies) :
                    /\ replies[i].topic_id = <<id.v>>
                    /\ replies[i].text # Stray
                    /\ replies[i].is_thread_reply = (i > 1)
               /\ Len(in6) = 1 =>
                    /\ replies[1].text = At(in6[1], 9).v
                    /\ replies[1].reply_index = 0
                    /\ result.messages = replies

\* C25 witness: the topic T1 with the message "hello world" at slot 6 and a
\* message array of its own at slot 2; the page has the one message, as root.
C25_Witness ==
  /\ ev.op = "parse_topics_with_threads"
  /\ tree = Response(<<TopicArray(Str(<<"T", "1">>),
                                  MsgArray(Str(<<"M", "2">>), Num(9), Str(Stray)),
                                  List(<<MsgArray(Str(<<"M", "1">>),
                                                  Str(<<"1", "7">>), Str(Hello))>>))>>,
                     FALSE)
  /\ Len(result.topics) = 1
  /\ Len(result.messages) = 1
  /\ result.messages[1].text = Hello
  /\ result.messages[1].timestamp_usec = 17
  /\ ~result.messages[1].is_thread_reply

\* ------------------------------------------------------------------ main()
\* get_all_cookies(force_refresh): the cached jar when it holds every
\* required cookie, otherwise a fresh extraction, which is written to the
\* cookie cache; raises when the extraction fails.
get_all_cookies(file, force, ext) ==
  IF ~force /\ file # <<>> /\ Required \subseteq file[1]
  THEN [cookies |-> file[1], file |-> file, raised |-> FALSE, fresh |-> FALSE]
  ELSE IF ext = <<>>
  THEN [cookies |-> {}, file |-> file, raised |-> TRUE, fresh |-> FALSE]
  ELSE [cookies |-> ext[1], file |-> ext, raised |-> FALSE, fresh |-> TRUE]

\* main(): while auth_attempts < 2
more_attempts(n) == n < MaxAuthAttempts

force_refresh_never(n) == FALSE

\* main(): force_refresh = auth_attempts > 1
force_refresh(n) == n > 1

\* The files a previous run of the program may have left behind.
InitMain ==
  /\ now = StartHour
  /\ authFile \in {<<>>, save_auth_cache("tok2", StartHour)}
  /\ cookieFile \in Extractions
  /\ xsrf_token = None
  /\ acquired_at = 0
  /\ api_reqid = 0
  /\ ev = NoEvent
  /\ mpc = "loop"
  /\ auth_attempts = 0
  /\ cookies = {}
  /\ fresh = FALSE
  /\ PageIdle
  /\ ExtIdle

\* main(), first half of a loop iteration: count the attempt, on a retry
\* invalidate both caches, get the cookies and check the required ones.
MainGetCookies ==
  /\ mpc = "loop"
  /\ more_attempts(auth_attempts)
  /\ \E ext \in Extractions :
       LET n == auth_attempts + 1
           force == force_refresh(n)
           cfile == IF force THEN invalidate_cookie_cache(cookieFile) ELSE cookieFile
           afile == IF force THEN invalidate_auth_cache(authFile) ELSE authFile
           g == get_all_cookies(cfile, force, ext)
           missing == ~(Required \subseteq g.cookies)
       IN /\ auth_attempts' = n
          /\ authFile' = afile
          /\ cookieFile' = g.file
          /\ cookies' = g.cookies
          /\ fresh' = g.fresh
          /\ mpc' = IF g.raised THEN "exit1"
                    ELSE IF missing THEN (IF n = 1 THEN "loop" ELSE "exit1")
                    ELSE "auth"
          /\ ev' = Event("main_cookies", force, FALSE, NoResp, g.raised, None)
  /\ UNCHANGED <<now, xsrf_token, acquired_at, api_reqid>>
  /\ UNCHANGED pageVars
  /\ UNCHANGED extVars

\* main(), second half: a new client is built from the cookies and
\* refresh_tokens(force_refresh) authenticates it.
MainAuthenticate ==
  /\ mpc = "auth"
  /\ \E resp \in Answers(force_refresh(auth_attempts)
                          \/ load_auth_cache(authFile, now) = <<>>) :
       LET force == force_refresh(auth_attempts)
           r == refresh_tokens(None, 0, authFile, now, force, resp)
       IN /\ xsrf_token' = r.xsrf_token
          /\ acquired_at' = r.acquired_at
          /\ api_reqid' = 0
          /\ authFile' = r.file
          /\ mpc' = IF ~r.raised THEN "run"
                    ELSE IF auth_attempts = 1 THEN "loop" ELSE "exit1"
          /\ ev' = Event("main_auth", force, r.bootstrap, resp, r.raised, None)
  /\ UNCHANGED <<now, auth_attempts, cookies, fresh, cookieFile>>
  /\ UNCHANGED pageVars
  /\ UNCHANGED extVars

\* main(), after authentication: a command issues a structured call; an
\* error ends the program with exit code 1.
MainCommand ==
  /\ mpc = "run"
  /\ api_reqid < MaxReqId
  /\ \E resp \in Answers(Falsy(xsrf_token) /\ load_auth_cache(authFile, now) = <<>>),
        status \in ApiStatuses :
       /\ Call("protojson", resp, status)
       /\ mpc' = IF ev'.raised THEN "exit1" ELSE "run"
  /\ UNCHANGED <<auth_attempts, cookies, fresh, cookieFile>>
  /\ UNCHANGED pageVars
  /\ UNCHANGED extVars

\* main() returns 0.
MainReturn ==
  /\ mpc = "run"
  /\ mpc' = "exit0"
  /\ ev' = Event("main_return", FALSE, FALSE, NoResp, FALSE, None)
  /\ UNCHANGED <<now, authFile, xsrf_token, acquired_at, api_reqid>>
  /\ UNCHANGED <<auth_attempts, cookies, fresh, cookieFile>>
  /\ UNCHANGED pageVars
  /\ UNCHANGED extVars

\* The wall clock advances while main() runs.
MainTick ==
  /\ mpc \in {"loop", "auth", "run"}
  /\ Tick

NextMain ==
  \/ MainGetCookies
  \/ MainAuthenticate
  \/ MainCommand
  \/ MainReturn
  \/ MainTick

SpecMain == InitMain /\ [][NextMain]_vars

\* The last step was an attempt that failed to authenticate: the required
\* cookies are missing, or refresh_tokens raised.
AuthFailed ==
  \/ ev.op = "main_auth" /\ ev.raised
  \/ ev.op = "main_cookies" /\ ~ev.raised /\ ~(Required \subseteq cookies)

\* C8: an authentication failure of the first attempt leads to one more
\* attempt and not to the exit; the second attempt runs with force_refresh:
\* both caches are invalidated, the cookies are freshly extracted and the
\* token comes from a forced bootstrap; a failure of the second attempt ends
\* main() with exit code 1; there are never more than two attempts.
C8_OneForcedRetry ==
  /\ auth_attempts <= MaxAuthAttempts
  /\ ev.op \in {"main_cookies", "main_auth"} =>
       /\ auth_attempts \in 1..MaxAuthAttempts
       /\ ev.force <=> auth_attempts = 2
  /\ AuthFailed => mpc = IF auth_attempts = 1 THEN "loop" ELSE "exit1"
  /\ ev.op = "main_cookies" /\ auth_attempts = 2 =>
       /\ authFile = <<>>
       /\ cookieFile = IF fresh THEN <<cookies>> ELSE <<>>
       /\ ~ev.raised => fresh
  /\ ev.op = "main_auth" /\ auth_attempts = 2 =>
       /\ fresh
       /\ ev.bootstrap
       /\ ~ev.raised => mpc = "run" /\ authFile = save_auth_cache(xsrf_token, now)

\* C8 witness: the first attempt failed, the forced retry went to the
\* bootstrap endpoint with fresh cookies, failed too, and main() gave up.
C8_Witness ==
  /\ mpc = "exit1"
  /\ AuthFailed
  /\ ev.op = "main_auth" /\ ev.force /\ ev.bootstrap
  /\ auth_attempts = 2
  /\ fresh

\* ------------------------------------------------ session store: properties
CallOps == {"protojson", "protobuf", "search"}

\* The step is a session acquisition without forced refresh: a direct
\* refresh_tokens(), or the one a call makes when the client holds no token.
Acquires ==
  \/ ev'.op = "refresh_tokens" /\ ~ev'.force
  \/ ev'.op \in CallOps /\ Falsy(xsrf_token)

CachedAge == now - authFile[1].cached_at

\* C5: an acquisition without forced refresh makes no bootstrap round trip
\* when the cached token is younger than 24 hours and always makes it when
\* the cached token is aged 24 hours or more, at any hour of the clock.
C5_BootstrapIffStale ==
  [][Acquires /\ authFile # <<>> =>
       /\ CachedAge < CacheWindowHours => ~ev'.bootstrap
       /\ CachedAge >= CacheWindowHours => ev'.bootstrap]_vars

\* C5 witness: a non-forced refresh_tokens found a cached token aged 24 hours
\* or more and went to the bootstrap endpoint (which failed, so the stale
\* cache is still there).
C5_Witness ==
  /\ ev.op = "refresh_tokens" /\ ~ev.force /\ ev.bootstrap /\ ev.raised
  /\ authFile # <<>>
  /\ CachedAge >= CacheWindowHours

\* C6: every structured API call and every search RPC that is sent carries
\* the token of a session that is valid at that moment (token present and
\* younger than 24 hours).
C6_RequestsUseValidSession ==
  ev.op \in CallOps /\ ev.sent # None =>
    /\ ev.sent = xsrf_token
    /\ SessionValid(xsrf_token, acquired_at, now)

\* C7: after invalidate_auth_cache no cached token remains and the next use
\* of the session (an acquisition or a call) goes to the bootstrap endpoint.
C7_InvalidateForcesReacquisition ==
  [][ev.op = "invalidate_auth_cache" =>
       /\ authFile = <<>>
       /\ ev'.op \in CallOps \cup {"refresh_tokens"} => ev'.bootstrap]_vars

\* The bootstrap answer is one of the four the claim lists.
Rejected(resp) ==
  \/ resp.status # HttpOk
  \/ ~resp.marker
  \/ resp.signin
  \/ Falsy(resp.SMqcke)

\* C9: when the bootstrap answer has a non-success status, lacks the marker,
\* is a sign-in page or carries no token, the acquisition raises, the client
\* gets no new token, no request is sent and the auth cache is not written.
C9_RejectedBootstrapFails ==
  [][ev'.bootstrap /\ Rejected(ev'.resp) =>
       /\ ev'.raised
       /\ xsrf_token' = xsrf_token \/ Falsy(xsrf_token')
       /\ ev'.sent = None
       /\ authFile' = authFile]_vars

\* C9 witness: a well-formed sign-in page carrying a token was rejected while
\* a cache file existed.
C9_Witness ==
  /\ ev.bootstrap /\ ev.raised
  /\ ev.resp.status = HttpOk /\ ev.resp.marker /\ ev.resp.json
  /\ ev.resp.signin /\ ~Falsy(ev.resp.SMqcke)
  /\ authFile # <<>>

\* C10: a successful bootstrap gives the client exactly the token of the
\* blob and caches it with the current time; a non-forced acquisition that
\* finds a cached token younger than 24 hours returns that token without a
\* round trip.
C10_TokenCachedAndReused ==
  [][/\ ev'.bootstrap /\ ~ev'.raised =>
          /\ xsrf_token' = ev'.resp.SMqcke
          /\ authFile' = <<[xsrf_token |-> ev'.resp.SMqcke, cached_at |-> now]>>
          /\ load_auth_cache(authFile', now') = authFile'
     /\ Acquires /\ authFile # <<>> /\ CachedAge < CacheWindowHours =>
          /\ xsrf_token' = authFile[1].xsrf_token
          /\ ~ev'.bootstrap
          /\ ev'.op = "refresh_tokens" => ~ev'.raised]_vars

\* C10 witness: a new client instance took, hours after the bootstrap, the
\* cached token without a round trip.
C10_Witness ==
  /\ ev.op = "refresh_tokens" /\ ~ev.force /\ ~ev.bootstrap
  /\ api_reqid = 0
  /\ authFile # <<>>
  /\ xsrf_token = authFile[1].xsrf_token
  /\ now > authFile[1].cached_at

\* C23: every structured call and every search RPC that is sent adds exactly
\* one to the request counter; a new client instance starts at 0; no other
\* operation changes the counter, so it never decreases during the life of
\* an instance and successive calls carry strictly increasing ids.
C23_CounterCountsCalls ==
  [][/\ ev'.op \in CallOps /\ ev'.sent # None => api_reqid' = api_reqid + 1
     /\ ev'.op \in CallOps /\ ev'.sent = None => api_reqid' = api_reqid
     /\ ev'.op = "init" => api_reqid' = 0
     /\ ev'.op \notin CallOps \cup {"init"} => api_reqid' = api_reqid]_vars

\* C23 witness: the second call of a client instance was sent, after a first
\* one, and carries the id 2.
C23_Witness ==
  /\ ev.op \in CallOps /\ ev.sent # None
  /\ api_reqid = 2

====
